---- MODULE Spec2Model ----
(***************************************************************************)
(* Model of tests/scripts/generate_test_code.py: the test-suite code       *)
(* generator.  A run checks its paths, opens the function file, the data   *)
(* file and the intermediate data file, parses the function file block by  *)
(* block (parse_functions), streams the data file line by line             *)
(* (parse_test_data driving the loop of gen_from_test_data), and finally   *)
(* renders the C file from the template.                                   *)
(*                                                                         *)
(* Text is a sequence of atoms.  An atom is one character (":", "\\",      *)
(* "!", "#", a digit, a letter) or an indivisible word that contains none  *)
(* of the characters the code looks at ("add", "Add two", "int", "FOO").   *)
(* The alphabet has no white space, so str.strip() leaves every text of    *)
(* the model unchanged.                                                    *)
(***************************************************************************)
EXTENDS Integers, Sequences, FiniteSets, TLC

VARIABLES
    pc,                 \* position of the run inside generate_code
    err,                \* the exception that ended the run, or NoError
    missing_paths,      \* the paths given to generate_code that do not exist (input)
    funcs_file,         \* the function file: a sequence of blocks (input)
    funcs_pos,          \* number of blocks of funcs_file consumed so far
    funcs_line_no,      \* funcs_f.line_no
    suite_deps,         \* parse_functions: suite_deps
    func_info,          \* parse_functions: func_info (name -> (id, args))
    function_idx,       \* parse_functions: function_idx
    dispatch_code,      \* parse_functions: dispatch_code, one record per entry
    suite_functions,    \* parse_functions: suite_functions, one record per function
    state,              \* parse_test_data: state
    name,               \* parse_test_data: name
    deps,               \* parse_test_data: deps
    data_read,          \* the lines of the data file read so far (input)
    data_line_no,       \* data_f.line_no
    yielded,            \* the tuples parse_test_data has yielded so far
    unique_deps,        \* gen_from_test_data: unique_deps
    unique_expressions, \* gen_from_test_data: unique_expressions
    dep_check_code,     \* gen_from_test_data: dep_check_code, one record per case
    expression_code,    \* gen_from_test_data: expression_code, one record per case
    snippets,           \* generate_code: snippets['dep_check_code' / 'expression_code']
    out_data_f,         \* the intermediate data file: status, lines, unterminated part
    c_file              \* the C source file: "unopened", "partial" or "written"

vars == <<pc, err, missing_paths, funcs_file, funcs_pos, funcs_line_no, suite_deps, func_info,
          function_idx, dispatch_code, suite_functions, state, name, deps, data_read,
          data_line_no, yielded,
          unique_deps, unique_expressions, dep_check_code, expression_code,
          snippets, out_data_f, c_file>>

funcsVars == <<funcs_pos, funcs_line_no, suite_deps, func_info, function_idx,
               dispatch_code, suite_functions>>
dataVars == <<state, name, deps, data_read, data_line_no, yielded, unique_deps,
              unique_expressions, dep_check_code, expression_code>>

(***************************************************************************)
(* Bounds.                                                                 *)
(***************************************************************************)
MaxBlocks == 3      \* blocks in a function file of SpecFuncs
MaxCases == 2       \* test cases yielded from one data file
MaxLines == 6       \* lines read from one data file
MaxSkips == 1       \* comment and blank lines in one data file
MaxDepLines == 1    \* depends_on lines of one test case
MaxParams == 4      \* parameters of a function signature of SpecSig

(***************************************************************************)
(* Sequence helpers.                                                       *)
(***************************************************************************)
Range(s) == {s[i] : i \in 1..Len(s)}

SeqsUpTo(S, n) == UNION {[1..k -> S] : k \in 0..n}

\* list.index(x): zero-based position of the first occurrence (x is in s)
index(s, x) == (CHOOSE i \in 1..Len(s) : s[i] = x /\ \A j \in 1..(i-1) : s[j] # x) - 1

RECURSIVE Flatten(_)
Flatten(ss) == IF ss = <<>> THEN <<>> ELSE Head(ss) \o Flatten(Tail(ss))

\* str(n) for a non-negative integer, as a sequence of digit characters
Digit == <<"0", "1", "2", "3", "4", "5", "6", "7", "8", "9">>
RECURSIVE str(_)
str(n) == IF n < 10 THEN <<Digit[n + 1]>> ELSE str(n \div 10) \o <<Digit[(n % 10) + 1]>>

(***************************************************************************)
(* Exceptions.  A message is the format string's pieces and the values     *)
(* substituted into it, in order.                                          *)
(***************************************************************************)
NoError == [type |-> "none", msg |-> <<>>]
GeneratorInputError(msg) == [type |-> "GeneratorInputError", msg |-> msg]
IndexError == [type |-> "IndexError", msg |-> <<"string index out of range">>]
ValueError(msg) == [type |-> "ValueError", msg |-> msg]
IOErrorAsInputError(msg) == [type |-> "GeneratorInputError", msg |-> msg]
IOError(msg) == [type |-> "IOError", msg |-> msg]
KeyError(key) == [type |-> "KeyError", msg |-> <<key>>]

FuncsFileName == "suite.function"
DataFileName == "suite.data"

(***************************************************************************)
(* Dependency code generation.                                             *)
(***************************************************************************)
\* split_dep: ('!', dep[1:]) if dep[0] == '!' else ('', dep); dep[0] of an
\* empty tag raises IndexError, which the callers below test with CanSplit.
CanSplit(dep) == Len(dep) > 0
split_dep(dep) == IF dep[1] = "!" THEN <<"!", Tail(dep)>> ELSE <<"", dep>>

\* gen_deps: one '#if [!]defined(macro)' per tag, and the '#endif's in
\* reverse order
gen_deps(ds) ==
    [dep_start |-> [i \in 1..Len(ds) |-> split_dep(ds[i])],
     dep_end |-> [i \in 1..Len(ds) |-> ds[Len(ds) + 1 - i]]]

\* gen_deps_one_line: '#if ' and the ' && '-joined defined() tests; the
\* model keeps the list of (sign, macro) tests, empty when deps is empty.
gen_deps_one_line(ds) == [i \in 1..Len(ds) |-> split_dep(ds[i])]

\* gen_dispatch: an entry guarded by #if ... #else NULL #endif when deps is
\* not empty, and the bare wrapper otherwise.
gen_dispatch(nm, ds) ==
    IF Len(ds) > 0
    THEN [name |-> nm, guarded |-> TRUE, ifdef |-> gen_deps_one_line(ds)]
    ELSE [name |-> nm, guarded |-> FALSE, ifdef |-> <<>>]

(***************************************************************************)
(* Text helpers shared by the two parsers.                                 *)
(***************************************************************************)
\* str.split(ch): every field is kept, empty ones included
RECURSIVE split(_, _)
split(s, ch) ==
    IF \A i \in 1..Len(s) : s[i] # ch
    THEN <<s>>
    ELSE LET k == CHOOSE i \in 1..Len(s) : s[i] = ch /\ \A j \in 1..(i-1) : s[j] # ch
         IN  <<SubSeq(s, 1, k - 1)>> \o split(SubSeq(s, k + 1, Len(s)), ch)

\* re.search('depends_on\:(.*)', line): the places where the pattern starts
DependsOnAt(line) ==
    {i \in 1..(Len(line) - 1) : line[i] = "depends_on" /\ line[i + 1] = ":"}

\* group(1) of the leftmost match
DependsOnGroup(line) ==
    LET i == CHOOSE k \in DependsOnAt(line) : \A j \in DependsOnAt(line) : k <= j
    IN  SubSeq(line, i + 2, Len(line))

(***************************************************************************)
(* The function file.  A block is what parse_functions consumes in one     *)
(* iteration of its loop: a suite-dependencies block (the lines between    *)
(* BEGIN_DEPENDENCIES and END_DEPENDENCIES) or a function-case block (the  *)
(* text of the BEGIN_CASE comment, the name and the parameter declarations *)
(* of the signature, and the number of body lines up to END_CASE).         *)
(***************************************************************************)
DepsBlock(lines) == [kind |-> "deps", lines |-> lines]

\* a function-case block in full: the lines between BEGIN_CASE and the first
\* line the signature pattern '.*?\s+(\w+)\s*\(' matches ("blank" or "text",
\* neither of which the pattern matches), the return type, the name and the
\* parameter declarations of that line, and the lines up to END_CASE
CaseBlockOf(dep_str, before, ret, nm, params, body) ==
    [kind |-> "case", dep_str |-> dep_str, before |-> before, ret |-> ret,
     name |-> nm, params |-> params, body |-> body]

\* the usual block: 'void name(params)' right after BEGIN_CASE, then '{', '}'
CaseBlock(dep_str, nm, params) ==
    CaseBlockOf(dep_str, <<>>, "void", nm, params, <<"{", "}">>)

\* number of lines of the function file a block occupies
BlockLines(b) ==
    IF b.kind = "deps" THEN Len(b.lines) + 2 ELSE Len(b.before) + Len(b.body) + 3

\* parse_suite_deps: every line with 'depends_on:' adds its colon-separated
\* fields, in order
RECURSIVE parse_suite_deps(_)
parse_suite_deps(lines) ==
    IF lines = <<>> THEN <<>>
    ELSE (IF DependsOnAt(Head(lines)) # {}
          THEN split(DependsOnGroup(Head(lines)), ":")
          ELSE <<>>) \o parse_suite_deps(Tail(lines))

\* parse_function_deps: the fields after 'depends_on:' inside the BEGIN_CASE
\* comment, or no dependency
parse_function_deps(dep_str) ==
    IF Len(dep_str) > 0 /\ DependsOnAt(dep_str) # {}
    THEN split(DependsOnGroup(dep_str), ":")
    ELSE <<>>

\* parse_function_signature: the schema entry of one parameter declaration
SupportedParams == {"int", "char*", "data_t*"}
ArgType(param) ==
    CASE param = "int" -> "int"
      [] param = "char*" -> "char*"
      [] param = "data_t*" -> "hex"

parse_function_signature(params) == [i \in 1..Len(params) |-> ArgType(params[i])]

\* parse_function_signature: arg_idx when the i-th declaration is reached, a
\* data_t declaration having advanced it twice and any other once
RECURSIVE arg_idx_one_slot(_, _)
arg_idx_one_slot(params, i) ==
    IF i = 1 THEN 0 ELSE arg_idx_one_slot(params, i - 1) + 1
RECURSIVE arg_idx(_, _)
arg_idx(params, i) ==
    IF i = 1 THEN 0
    ELSE arg_idx(params, i - 1) + (IF params[i - 1] = "data_t*" THEN 2 ELSE 1)

\* parse_function_signature: args_dispatch, the expression the wrapper passes
\* for each declaration: params[n] cast for int and char*, &data<n> for data_t
args_dispatch(params) ==
    [i \in 1..Len(params) |->
       CASE params[i] = "int" -> [expr |-> "*( (int *) params[n] )", n |-> arg_idx(params, i)]
         [] params[i] = "char*" -> [expr |-> "(char *) params[n]", n |-> arg_idx(params, i)]
         [] params[i] = "data_t*" -> [expr |-> "&data<n>", n |-> arg_idx(params, i)]]

\* parse_function_signature: locals, one 'data_t data<n> = {(uint8_t *)
\* params[n], *( (uint32_t *) params[n+1] )}' per data_t declaration
RECURSIVE locals_from(_, _)
locals_from(params, i) ==
    IF i > Len(params) THEN <<>>
    ELSE (IF params[i] = "data_t*"
          THEN <<[data |-> arg_idx(params, i),
                  pointer_initializer |-> arg_idx(params, i),
                  len_initializer |-> arg_idx(params, i) + 1]>>
          ELSE <<>>) \o locals_from(params, i + 1)

\* gen_function_wrapper: <name>_wrapper(void **params) declares the locals
\* and calls name with the dispatch arguments
gen_function_wrapper(nm, locals, disp) ==
    [name |-> nm, unused_params |-> (disp = <<>>), locals |-> locals, args |-> disp]

\* parse_function_code: name = 'test_' + name
Renamed(nm) == <<"test_">> \o nm

\* parse_function_code: code.find('exit:') on one line of the code; the label
\* itself and a comment that quotes it both hold the text
HoldsExitText(line) == line \in {"exit:", "/* exit: */"}

\* parse_function_code: the code after the '#line' directive, the signature
\* line with the name replaced and then the lines of the body; when no line
\* holds 'exit:' and the code has a '}', code.rsplit('}', 1) is joined again
\* with 'exit:', ';;' and the brace (the signature line has neither)
function_code(nm, body) ==
    LET braces == {i \in 1..Len(body) : body[i] = "}"}
    IN  [signature |-> <<"void">> \o Renamed(nm),
         body |-> IF (\A i \in 1..Len(body) : ~HoldsExitText(body[i])) /\ braces # {}
                  THEN LET k == CHOOSE i \in braces : \A j \in braces : j <= i
                       IN  SubSeq(body, 1, k - 1) \o <<"exit:", ";;", "}">>
                             \o SubSeq(body, k + 1, Len(body))
                  ELSE body]

\* parse_functions: func_info[func_name] = (function_idx, args)
func_info_zero(finfo, func_name, idx, args) ==
    [n \in DOMAIN finfo \cup {func_name} |->
       IF n = func_name THEN [id |-> 0, args |-> args] ELSE finfo[n]]
func_info_set(finfo, func_name, idx, args) ==
    [n \in DOMAIN finfo \cup {func_name} |->
       IF n = func_name THEN [id |-> idx, args |-> args] ELSE finfo[n]]

\* parse_functions: func_name in func_info
RedeclaredNever(func_name, finfo) == FALSE
Redeclared(func_name, finfo) == func_name \in DOMAIN finfo

\* the exception parse_function_code raises for a block, or NoError
ParseFunctionCodeError(b, ds, sds) ==
    IF b.ret # "void"
    THEN ValueError(<<"Test function should return 'void'">>)
    ELSE IF \E i \in 1..Len(b.params) : b.params[i] \notin SupportedParams
    THEN ValueError(<<"Test function arguments can only be 'int', 'char *' or 'data_t'">>)
    ELSE IF \E i \in 1..Len(ds) : ~CanSplit(ds[i])
    THEN IndexError
    ELSE IF \E i \in 1..Len(sds) : ~CanSplit(sds[i])
    THEN IndexError
    ELSE NoError

(***************************************************************************)
(* generate_code, up to the parsers.                                       *)
(***************************************************************************)
PathList == <<"Functions file", "Data file", "Template file", "Platform file",
              "Helpers code file", "Suites dir">>
PathNames == Range(PathList)

ClosedOut == [status |-> "unopened", lines |-> <<>>, part |-> <<>>]

\* the path check at the head of generate_code: the first path of the list
\* that does not exist is reported
CheckPaths ==
    /\ pc = "check_paths"
    /\ IF missing_paths # {}
       THEN LET i == CHOOSE k \in 1..Len(PathList) :
                       /\ PathList[k] \in missing_paths
                       /\ \A j \in 1..(k - 1) : PathList[j] \notin missing_paths
            IN  /\ pc' = "error"
                /\ err' = IOError(<<"ERROR:", PathList[i], "not found!">>)
       ELSE /\ pc' = "open"
            /\ UNCHANGED err
    /\ UNCHANGED <<missing_paths, funcs_file, funcsVars, dataVars, snippets, out_data_f, c_file>>

\* the with statement that opens funcs_f, data_f and out_data_f ('w')
OpenFiles ==
    /\ pc = "open"
    /\ pc' = "parse_functions"
    /\ out_data_f' = [out_data_f EXCEPT !.status = "open"]
    /\ UNCHANGED <<err, missing_paths, funcs_file, funcsVars, dataVars, snippets, c_file>>

\* leaving the with statement on an exception closes the three files
Raise(e) ==
    /\ pc' = "error"
    /\ err' = e

(***************************************************************************)
(* parse_functions, one block per step.                                    *)
(***************************************************************************)
ParseSuiteDeps ==
    /\ pc = "parse_functions"
    /\ funcs_pos < Len(funcs_file)
    /\ LET b == funcs_file[funcs_pos + 1] IN
         /\ b.kind = "deps"
         /\ suite_deps' = suite_deps \o parse_suite_deps(b.lines)
         /\ funcs_pos' = funcs_pos + 1
         /\ funcs_line_no' = funcs_line_no + BlockLines(b)
    /\ UNCHANGED <<pc, err, missing_paths, funcs_file, func_info, function_idx, dispatch_code,
                   suite_functions, dataVars, snippets, out_data_f, c_file>>

ParseCase ==
    /\ pc = "parse_functions"
    /\ funcs_pos < Len(funcs_file)
    /\ LET b == funcs_file[funcs_pos + 1]
           ds == parse_function_deps(b.dep_str)
           func_name == Renamed(b.name)
           e == ParseFunctionCodeError(b, ds, suite_deps)
       IN
         /\ b.kind = "case"
         /\ funcs_pos' = funcs_pos + 1
         /\ IF e # NoError
            THEN /\ Raise(e)
                 /\ funcs_line_no' =
                      funcs_line_no + (IF e.type = "ValueError"
                                       THEN Len(b.before) + 2 ELSE BlockLines(b))
                 /\ out_data_f' = [out_data_f EXCEPT !.status = "closed"]
                 /\ UNCHANGED <<func_info, function_idx, dispatch_code, suite_functions>>
            ELSE IF Redeclared(func_name, func_info)
            THEN /\ Raise(GeneratorInputError(
                        <<"file:", FuncsFileName, "- function">> \o func_name
                          \o <<"re-declared at line">>
                          \o str(funcs_line_no + BlockLines(b))))
                 /\ funcs_line_no' = funcs_line_no + BlockLines(b)
                 /\ out_data_f' = [out_data_f EXCEPT !.status = "closed"]
                 /\ UNCHANGED <<func_info, function_idx, dispatch_code, suite_functions>>
            ELSE /\ func_info' = func_info_set(func_info, func_name, function_idx,
                                                parse_function_signature(b.params))
                 /\ dispatch_code' = Append(dispatch_code,
                      [id |-> function_idx,
                       entry |-> gen_dispatch(func_name, suite_deps \o ds)])
                 /\ suite_functions' = Append(suite_functions,
                      [ifdef |-> gen_deps(ds),
                       line |-> funcs_line_no + 2,
                       code |-> function_code(b.name, b.body),
                       wrapper |-> gen_function_wrapper(func_name,
                                     locals_from(b.params, 1), args_dispatch(b.params))])
                 /\ function_idx' = function_idx + 1
                 /\ funcs_line_no' = funcs_line_no + BlockLines(b)
                 /\ UNCHANGED <<pc, err, out_data_f>>
    /\ UNCHANGED <<missing_paths, funcs_file, suite_deps, dataVars, snippets, c_file>>

\* the end of the function file: gen_deps(suite_deps) wraps the function code
ParseFunctionsEnd ==
    /\ pc = "parse_functions"
    /\ funcs_pos = Len(funcs_file)
    /\ IF \E i \in 1..Len(suite_deps) : ~CanSplit(suite_deps[i])
       THEN /\ Raise(IndexError)
            /\ out_data_f' = [out_data_f EXCEPT !.status = "closed"]
       ELSE /\ pc' = "gen_from_test_data"
            /\ UNCHANGED <<err, out_data_f>>
    /\ UNCHANGED <<missing_paths, funcs_file, funcsVars, dataVars, snippets, c_file>>


(***************************************************************************)
(* The data file parser and the intermediate data file writer.             *)
(***************************************************************************)
\* the scan with the escape character treated as any other character
RECURSIVE escaped_split_scan_no_escape(_, _, _, _, _)
escaped_split_scan_no_escape(s, ch, out, part, escape) ==
    IF s = <<>>
    THEN IF Len(part) > 0 THEN Append(out, part) ELSE out
    ELSE IF Head(s) = ch
         THEN escaped_split_scan_no_escape(Tail(s), ch, Append(out, part), <<>>, FALSE)
         ELSE escaped_split_scan_no_escape(Tail(s), ch, out, Append(part, Head(s)), FALSE)

\* escaped_split: a left-to-right scan carrying (out, part, escape)
RECURSIVE escaped_split_scan(_, _, _, _, _)
escaped_split_scan(s, ch, out, part, escape) ==
    IF s = <<>>
    THEN IF Len(part) > 0 THEN Append(out, part) ELSE out
    ELSE IF ~escape /\ Head(s) = ch
         THEN escaped_split_scan(Tail(s), ch, Append(out, part), <<>>, escape)
         ELSE escaped_split_scan(Tail(s), ch, out, Append(part, Head(s)),
                                 ~escape /\ Head(s) = "\\")

\* str.split in its place: no escape, every field kept
escaped_split_plain(s, ch) == split(s, ch)
escaped_split(s, ch) == escaped_split_scan(s, ch, <<>>, <<>>, FALSE)

\* the list comprehension of parse_test_data: the non-empty fields
RECURSIVE NonEmpty(_)
NonEmpty(ss) ==
    IF ss = <<>> THEN <<>>
    ELSE (IF Len(Head(ss)) > 0 THEN <<Head(ss)>> ELSE <<>>) \o NonEmpty(Tail(ss))

\* file.write(text) and file.write(text + '\n')
write_lost(f, text) == f
write(f, text) == [f EXCEPT !.part = @ \o text]
writeln(f, text) == [f EXCEPT !.lines = Append(@, f.part \o text), !.part = <<>>]

\* gen_dep_check: the case for one id; an empty macro name is rejected
DepCheckRejected(dep) == Len(split_dep(dep)[2]) = 0
gen_dep_check_unsigned(dep_id, dep) ==
    [id |-> dep_id, noT |-> "", macro |-> split_dep(dep)[2]]
gen_dep_check(dep_id, dep) ==
    [id |-> dep_id, noT |-> split_dep(dep)[1], macro |-> split_dep(dep)[2]]

\* gen_expression_check: the case for one id; an empty expression is rejected
ExpCheckRejected(exp) == Len(exp) = 0
gen_expression_check_next_id(exp_id, exp) == [exp_id |-> exp_id + 1, expression |-> exp]
gen_expression_check(exp_id, exp) == [exp_id |-> exp_id, expression |-> exp]

\* write_deps, write_parameters: x in the list of unique values
InternedNever(x, u) == FALSE
Interned(x, u) == x \in Range(u)

\* the loop with a check case generated at every occurrence of a tag
RECURSIVE write_deps_loop_recheck(_, _, _, _)
write_deps_loop_recheck(f, ds, u, code) ==
    IF ds = <<>>
    THEN [f |-> writeln(f, <<>>), unique |-> u, code |-> code, err |-> NoError]
    ELSE LET dep == Head(ds)
             u2 == IF Interned(dep, u) THEN u ELSE Append(u, dep)
             dep_id == index(u2, dep)
         IN  IF DepCheckRejected(dep)
             THEN [f |-> f, unique |-> u2, code |-> code,
                   err |-> GeneratorInputError(
                             <<"Dependency should not be an empty string.">>)]
             ELSE write_deps_loop_recheck(write(f, <<":">> \o str(dep_id)), Tail(ds), u2,
                                          Append(code, gen_dep_check(dep_id, dep)))

\* the loop of write_deps over the remaining dependencies ds
RECURSIVE write_deps_loop(_, _, _, _)
write_deps_loop(f, ds, u, code) ==
    IF ds = <<>>
    THEN [f |-> writeln(f, <<>>), unique |-> u, code |-> code, err |-> NoError]
    ELSE LET dep == Head(ds) IN
         IF ~Interned(dep, u)
         THEN LET u2 == Append(u, dep)
                  dep_id == index(u2, dep)
              IN  IF DepCheckRejected(dep)
                  THEN [f |-> f, unique |-> u2, code |-> code,
                        err |-> GeneratorInputError(
                                  <<"Dependency should not be an empty string.">>)]
                  ELSE write_deps_loop(write(f, <<":">> \o str(dep_id)), Tail(ds), u2,
                                       Append(code, gen_dep_check(dep_id, dep)))
         ELSE write_deps_loop(write(f, <<":">> \o str(index(u, dep))), Tail(ds), u, code)

write_deps_always(f, test_deps, u) ==
    write_deps_loop(write(f, <<"depends_on">>), test_deps, u, <<>>)
write_deps(f, test_deps, u) ==
    IF Len(test_deps) > 0
    THEN write_deps_loop(write(f, <<"depends_on">>), test_deps, u, <<>>)
    ELSE [f |-> f, unique |-> u, code |-> <<>>, err |-> NoError]

\* re.match('(\d+$)|((0x)?[0-9a-fA-F]+$)', val)
DecDigits == {"0", "1", "2", "3", "4", "5", "6", "7", "8", "9"}
HexDigits == DecDigits \cup {"a", "b", "c", "d", "e", "f", "A", "B", "C", "D", "E", "F"}
AllIn(s, S) == Len(s) > 0 /\ \A i \in 1..Len(s) : s[i] \in S
IsIntLiteralPrefix(val) == Len(val) > 0 /\ val[1] \in HexDigits
IsIntLiteral(val) ==
    \/ AllIn(val, DecDigits)
    \/ AllIn(val, HexDigits)
    \/ /\ Len(val) > 2
       /\ val[1] = "0"
       /\ val[2] = "x"
       /\ AllIn(SubSeq(val, 3, Len(val)), HexDigits)

\* the loop of write_parameters from argument i on
RECURSIVE write_parameters_loop(_, _, _, _, _, _)
write_parameters_loop(f, test_args, func_args, i, ue, code) ==
    IF i > Len(test_args)
    THEN [f |-> writeln(f, <<>>), unique |-> ue, code |-> code, err |-> NoError]
    ELSE LET typ == func_args[i]
             val == test_args[i]
         IN  IF typ = "int" /\ ~IsIntLiteral(val)
             THEN IF ~Interned(val, ue)
                  THEN LET ue2 == Append(ue, val)
                           exp_id == index(ue2, val)
                       IN  IF ExpCheckRejected(val)
                           THEN [f |-> f, unique |-> ue2, code |-> code,
                                 err |-> GeneratorInputError(
                                   <<"Expression should not be an empty string.">>)]
                           ELSE write_parameters_loop(
                                  write(f, <<":", "exp", ":">> \o str(exp_id)),
                                  test_args, func_args, i + 1, ue2,
                                  Append(code, gen_expression_check(exp_id, val)))
                  ELSE write_parameters_loop(
                         write(f, <<":", "exp", ":">> \o str(index(ue, val))),
                         test_args, func_args, i + 1, ue, code)
             ELSE write_parameters_loop(write(f, <<":", typ, ":">> \o val),
                                        test_args, func_args, i + 1, ue, code)

write_parameters(f, test_args, func_args, ue) ==
    write_parameters_loop(f, test_args, func_args, 1, ue, <<>>)

\* the blocks wrapped only when they hold a case
gen_suite_deps_checks_if_cases(sds, dcode, ecode) ==
    [dep_check_code |-> [wrapped |-> Len(sds) > 0 /\ dcode # <<>>,
                         ifdef |-> IF Len(sds) > 0 /\ dcode # <<>>
                                   THEN gen_deps_one_line(sds) ELSE <<>>,
                         code |-> dcode],
     expression_code |-> [wrapped |-> Len(sds) > 0 /\ ecode # <<>>,
                          ifdef |-> IF Len(sds) > 0 /\ ecode # <<>>
                                    THEN gen_deps_one_line(sds) ELSE <<>>,
                          code |-> ecode]]

\* gen_suite_deps_checks: both blocks inside one #if of the suite's tags
gen_suite_deps_checks(sds, dcode, ecode) ==
    IF Len(sds) > 0
    THEN [dep_check_code |-> [wrapped |-> TRUE, ifdef |-> gen_deps_one_line(sds),
                              code |-> dcode],
          expression_code |-> [wrapped |-> TRUE, ifdef |-> gen_deps_one_line(sds),
                               code |-> ecode]]
    ELSE [dep_check_code |-> [wrapped |-> FALSE, ifdef |-> <<>>, code |-> dcode],
          expression_code |-> [wrapped |-> FALSE, ifdef |-> <<>>, code |-> ecode]]

\* gen_from_test_data: len(test_args) != len(func_args)
ArgCountTooMany(test_args, func_args) == Len(test_args) > Len(func_args)
ArgCountMismatch(test_args, func_args) == Len(test_args) # Len(func_args)

\* one iteration of the loop of gen_from_test_data for a yielded tuple: the
\* file, the tables and the check code after it, and the exception if any
LoopBody(f, t, finfo, ud, ue) ==
    LET f1 == writeln(f, t.name)
        wd == write_deps(f1, t.deps, ud)
        test_function_name == Renamed(t.function)
    IN  IF wd.err # NoError
        THEN [f |-> wd.f, ud |-> wd.unique, ue |-> ue, dcode |-> <<>>, ecode |-> <<>>,
              err |-> wd.err]
        ELSE IF test_function_name \notin DOMAIN finfo
        THEN [f |-> wd.f, ud |-> wd.unique, ue |-> ue, dcode |-> wd.code, ecode |-> <<>>,
              err |-> GeneratorInputError(
                        <<"Function">> \o test_function_name \o <<"not found!">>)]
        ELSE LET func_id == finfo[test_function_name].id
                 func_args == finfo[test_function_name].args
                 f2 == write(wd.f, str(func_id))
             IN  IF ArgCountMismatch(t.args, func_args)
                 THEN [f |-> f2, ud |-> wd.unique, ue |-> ue, dcode |-> wd.code,
                       ecode |-> <<>>,
                       err |-> GeneratorInputError(
                                 <<"Invalid number of arguments in test">> \o t.name
                                 \o <<". See function">> \o t.function
                                 \o <<"signature.">>)]
                 ELSE LET wp == write_parameters(f2, t.args, func_args, ue) IN
                      IF wp.err # NoError
                      THEN [f |-> wp.f, ud |-> wd.unique, ue |-> wp.unique,
                            dcode |-> wd.code, ecode |-> <<>>, err |-> wp.err]
                      ELSE [f |-> writeln(wp.f, <<>>), ud |-> wd.unique,
                            ue |-> wp.unique, dcode |-> wd.code, ecode |-> wp.code,
                            err |-> NoError]

(***************************************************************************)
(* The lines a data file of the model is made of.                          *)
(***************************************************************************)
Blank == <<>>
Comment == <<"#", "depends_on", ":", "FOO">>

\* the name line of the n-th test case of a data file: 'Add two', 'n2', 'n3'
CaseName(n) == IF n = 1 THEN <<"Add two">> ELSE <<"n">> \o str(n)
NameLines == {CaseName(n) : n \in 1..MaxCases}

FOO == <<"FOO">>
NotFOO == <<"!", "FOO">>
BAR == <<"BAR">>

\* the fields joined by ':' after a first word
Joined(first, fields) ==
    <<first>> \o Flatten([i \in 1..Len(fields) |-> <<":">> \o fields[i]])

\* the lines the search for 'depends_on:' finds a match in; the last one has
\* the text inside its second field
DepLines ==
    { Joined("depends_on", <<FOO>>),
      Joined("depends_on", <<NotFOO, FOO>>),
      Joined("depends_on", <<BAR, <<>>, FOO>>),
      Joined("depends_on", <<<<>>>>),
      Joined("depends_on", <<<<"!">>>>),
      Joined("f2", <<<<"depends_on">>, FOO>>) }

ArgLines ==
    { Joined("add", << <<"3">>, <<"4">> >>),
      Joined("add", << <<"3", "M">>, <<"0", "x", "a">> >>),
      Joined("add", << <<"a", "\\", ":", "M">>, <<"3", "M">> >>),
      Joined("add", << <<>>, <<"4">> >>),
      Joined("add", << <<"3">> >>),
      Joined("f2", << <<"a", "\\", ":", "M">> >>),
      Joined("f2", << <<>>, <<>> >>),
      Joined("f2", << <<"3">>, <<"4">> >>),
      Joined("foo", << <<"a", "\\", ":", "b">>, <<"1">> >>) }

\* the comment and blank lines of a data file prefix
Skips(lines) == Cardinality({i \in 1..Len(lines) : lines[i] \in {Blank, Comment}})

\* the depends_on lines at the end of a data file prefix, comments aside
RECURSIVE PendingDepLines(_)
PendingDepLines(lines) ==
    IF lines = <<>> THEN 0
    ELSE LET last == lines[Len(lines)]
             rest == SubSeq(lines, 1, Len(lines) - 1)
         IN  IF last \in DepLines THEN 1 + PendingDepLines(rest)
             ELSE IF last = Comment THEN PendingDepLines(rest)
             ELSE 0

(***************************************************************************)
(* gen_from_test_data, one data file line per step.                        *)
(***************************************************************************)
CloseOut(f) == [f EXCEPT !.status = "closed"]

\* parse_test_data: len(line) and line[0] == '#'
IsCommentNever(line) == FALSE
IsComment(line) == Len(line) > 0 /\ line[1] = "#"

\* parse_test_data: a blank line is an error if state == STATE_READ_ARGS
NewlineBeforeArgumentsNever(st) == FALSE
NewlineBeforeArguments(st) == st = "READ_ARGS"

\* a comment, or a blank line while a name is expected: skipped
SkipLine ==
    /\ pc = "gen_from_test_data"
    /\ data_line_no < MaxLines
    /\ Skips(data_read) < MaxSkips
    /\ \E line \in {Blank, Comment} :
         /\ IsComment(line) \/ (Len(line) = 0 /\ ~NewlineBeforeArguments(state))
         /\ data_read' = Append(data_read, line)
         /\ data_line_no' = data_line_no + 1
    /\ UNCHANGED <<pc, err, missing_paths, funcs_file, funcsVars, state, name, deps, yielded,
                   unique_deps, unique_expressions, dep_check_code, expression_code,
                   snippets, out_data_f, c_file>>

\* a blank line while the arguments are expected
BlankBeforeArgs ==
    /\ pc = "gen_from_test_data"
    /\ data_line_no < MaxLines
    /\ Skips(data_read) < MaxSkips
    /\ ~IsComment(Blank)
    /\ Len(Blank) = 0
    /\ NewlineBeforeArguments(state)
    /\ data_read' = Append(data_read, Blank)
    /\ data_line_no' = data_line_no + 1
    /\ Raise(GeneratorInputError(
         <<"[", DataFileName, ":">> \o str(data_line_no + 1)
         \o <<"] Newline before arguments. Test function and arguments missing for">>
         \o name))
    /\ out_data_f' = CloseOut(out_data_f)
    /\ UNCHANGED <<missing_paths, funcs_file, funcsVars, state, name, deps, yielded, unique_deps,
                   unique_expressions, dep_check_code, expression_code, snippets,
                   c_file>>

ReadName ==
    /\ pc = "gen_from_test_data"
    /\ data_line_no < MaxLines
    /\ Len(yielded) < MaxCases
    /\ state = "READ_NAME"
    /\ \E line \in {CaseName(Len(yielded) + 1), Comment} :
         /\ ~IsComment(line)
         /\ Len(line) > 0
         /\ name' = line
         /\ state' = "READ_ARGS"
         /\ data_read' = Append(data_read, line)
         /\ data_line_no' = data_line_no + 1
    /\ UNCHANGED <<pc, err, missing_paths, funcs_file, funcsVars, deps, yielded, unique_deps,
                   unique_expressions, dep_check_code, expression_code, snippets,
                   out_data_f, c_file>>

\* parse_test_data: deps = [x.strip() for x in m.group(1).split(':') if
\* len(x.strip())], whatever deps held before
deps_extended(old, line) == old \o NonEmpty(split(DependsOnGroup(line), ":"))
deps_of_line(old, line) == NonEmpty(split(DependsOnGroup(line), ":"))

\* parse_test_data: deps = [] once the generator is resumed after a yield
deps_kept(old) == old
deps_reset(old) == <<>>

\* a depends_on line, one of lines, while fewer than max are pending
ReadDepsFrom(lines, max) ==
    /\ pc = "gen_from_test_data"
    /\ data_line_no < MaxLines
    /\ state = "READ_ARGS"
    /\ PendingDepLines(data_read) < max
    /\ \E line \in lines :
         /\ DependsOnAt(line) # {}
         /\ deps' = deps_of_line(deps, line)
         /\ data_read' = Append(data_read, line)
         /\ data_line_no' = data_line_no + 1
    /\ UNCHANGED <<pc, err, missing_paths, funcs_file, funcsVars, state, name, yielded, unique_deps,
                   unique_expressions, dep_check_code, expression_code, snippets,
                   out_data_f, c_file>>

ReadDeps == ReadDepsFrom(DepLines, MaxDepLines)

\* an argument line: the tuple is yielded and the loop body runs on it
ReadArgsFrom(lines) ==
    /\ pc = "gen_from_test_data"
    /\ data_line_no < MaxLines
    /\ state = "READ_ARGS"
    /\ \E line \in lines :
         /\ DependsOnAt(line) = {}
         /\ LET parts == escaped_split(line, ":")
                t == [name |-> name, function |-> parts[1], deps |-> deps,
                      args |-> Tail(parts)]
                r == LoopBody(out_data_f, t, func_info, unique_deps, unique_expressions)
            IN  /\ data_read' = Append(data_read, line)
                /\ data_line_no' = data_line_no + 1
                /\ yielded' = Append(yielded, t)
                /\ unique_deps' = r.ud
                /\ unique_expressions' = r.ue
                /\ IF r.err # NoError
                   THEN /\ Raise(r.err)
                        /\ out_data_f' = CloseOut(r.f)
                        /\ UNCHANGED <<state, deps, dep_check_code, expression_code>>
                   ELSE /\ out_data_f' = r.f
                        /\ dep_check_code' = dep_check_code \o r.dcode
                        /\ expression_code' = expression_code \o r.ecode
                        /\ deps' = deps_reset(deps)
                        /\ state' = "READ_NAME"
                        /\ UNCHANGED <<pc, err>>
    /\ UNCHANGED <<missing_paths, funcs_file, funcsVars, name, snippets, c_file>>

ReadArgs == ReadArgsFrom(ArgLines)

\* the end of the data file
DataEOF ==
    /\ pc = "gen_from_test_data"
    /\ IF state = "READ_ARGS"
       THEN /\ Raise(GeneratorInputError(
                 <<"[", DataFileName, ":">> \o str(data_line_no)
                 \o <<"] Newline before arguments. Test function and arguments missing for">>
                 \o name))
            /\ out_data_f' = CloseOut(out_data_f)
            /\ UNCHANGED snippets
       ELSE /\ snippets' = gen_suite_deps_checks(suite_deps, dep_check_code,
                                                 expression_code)
            /\ out_data_f' = CloseOut(out_data_f)
            /\ pc' = "render"
            /\ UNCHANGED err
    /\ UNCHANGED <<missing_paths, funcs_file, funcsVars, dataVars, c_file>>

\* generate_code: the keys of snippets when the template is read
SnippetKeys ==
    {"generator_script", "test_common_helper_file", "test_common_helpers",
     "test_platform_file", "platform_code", "functions_code", "dispatch_code",
     "dep_check_code", "expression_code", "test_file", "test_main_file",
     "test_case_file", "test_case_data_file", "line_no"}

\* the template files: a line is the name of the replacement field it holds
Templates ==
    { <<"test_common_helpers", "functions_code", "dep_check_code", "expression_code",
        "dispatch_code", "platform_code">>,
      <<"test_common_helpers", "suite_helpers", "functions_code">> }

\* line.format(**snippets) raises KeyError for a field that is no key
FormatFails(line) == line \notin SnippetKeys

\* the C file is opened for writing and the template is formatted into it
\* line by line; a line that cannot be formatted ends the run, the lines
\* before it written
Render ==
    /\ pc = "render"
    /\ \E template \in Templates :
         LET bad == {i \in 1..Len(template) : FormatFails(template[i])} IN
         IF bad = {}
         THEN /\ c_file' = "written"
              /\ pc' = "done"
              /\ UNCHANGED err
         ELSE /\ c_file' = "partial"
              /\ Raise(KeyError(template[CHOOSE i \in bad : \A j \in bad : i <= j]))
    /\ UNCHANGED <<missing_paths, funcs_file, funcsVars, dataVars, snippets, out_data_f>>

(***************************************************************************)
(* Specifications.                                                         *)
(***************************************************************************)
NoSnippets == gen_suite_deps_checks(<<>>, <<>>, <<>>)

\* the sets of missing paths of the whole-run specification
MissingPaths ==
    {{}} \cup {{p} : p \in PathNames} \cup {{"Template file", "Suites dir"}}

InitRun(files, start) ==
    /\ pc = start
    /\ err = NoError
    /\ missing_paths \in (IF start = "check_paths" THEN MissingPaths ELSE {{}})
    /\ funcs_file \in files
    /\ funcs_pos = 0
    /\ funcs_line_no = 0
    /\ suite_deps = <<>>
    /\ func_info = << >>
    /\ function_idx = 0
    /\ dispatch_code = <<>>
    /\ suite_functions = <<>>
    /\ state = "READ_NAME"
    /\ name = <<>>
    /\ deps = <<>>
    /\ data_read = <<>>
    /\ data_line_no = 0
    /\ yielded = <<>>
    /\ unique_deps = <<>>
    /\ unique_expressions = <<>>
    /\ dep_check_code = <<>>
    /\ expression_code = <<>>
    /\ snippets = NoSnippets
    /\ out_data_f = [ClosedOut EXCEPT !.status =
                       IF start = "check_paths" THEN "unopened" ELSE "open"]
    /\ c_file = "unopened"

\* the function files of the whole-run specification
S1 == <<"S1">>
F1 == <<"F1">>
AddBlock == CaseBlock(<<>>, <<"add">>, <<"int", "int">>)
SuiteFiles ==
    { <<DepsBlock(<<Joined("depends_on", <<S1>>)>>), AddBlock,
        CaseBlock(Joined("depends_on", <<F1>>), <<"f2">>, <<"char*">>)>> }

Init == InitRun(SuiteFiles, "check_paths")

Next ==
    \/ CheckPaths
    \/ OpenFiles
    \/ ParseSuiteDeps
    \/ ParseCase
    \/ ParseFunctionsEnd
    \/ SkipLine
    \/ BlankBeforeArgs
    \/ ReadName
    \/ ReadDeps
    \/ ReadArgs
    \/ DataEOF
    \/ Render

Spec == Init /\ [][Next]_vars


(***************************************************************************)
(* The function files of SpecFuncs: every sequence of at most MaxBlocks    *)
(* blocks, run through parse_functions alone.                              *)
(***************************************************************************)
NotS2 == <<"!", "S2">>
FuncBlocks ==
    { DepsBlock(<<Joined("depends_on", <<S1>>)>>),
      DepsBlock(<<Joined("depends_on", <<NotS2>>), Joined("depends_on", <<S1>>)>>),
      DepsBlock(<<Joined("depends_on", <<<<>>>>)>>),
      CaseBlock(<<"no_deps">>, <<"h">>, <<"int", "float">>) }
    \cup { CaseBlock(d, <<"add">>, <<"int", "int">>) :
             d \in {<<>>, Joined("depends_on", <<F1>>), Joined("depends_on", <<<<>>>>)} }
    \cup { CaseBlock(d, <<"f2">>, <<"char*", "data_t*">>) :
             d \in {<<>>, Joined("depends_on", <<NotS2, F1>>)} }

FuncFiles == SeqsUpTo(FuncBlocks, MaxBlocks)

InitFuncs == InitRun(FuncFiles, "parse_functions")

NextFuncs ==
    \/ ParseSuiteDeps
    \/ ParseCase
    \/ ParseFunctionsEnd

SpecFuncs == InitFuncs /\ [][NextFuncs]_vars


(***************************************************************************)
(* Properties of parse_functions (SpecFuncs).                              *)
(***************************************************************************)
IsCase(b) == b.kind = "case"

\* the preprocessor test a tag stands for: its sign and its macro
TagTest(tag) == IF tag # <<>> /\ tag[1] = "!" THEN <<"!", Tail(tag)>> ELSE <<"", tag>>
Conjunction(tags) == [k \in 1..Len(tags) |-> TagTest(tags[k])]

\* the suite-wide tags declared in the first k blocks of the function file
RECURSIVE SuiteTagsIn(_, _)
SuiteTagsIn(file, k) ==
    IF k = 0 THEN <<>>
    ELSE SuiteTagsIn(file, k - 1)
         \o (IF file[k].kind = "deps" THEN parse_suite_deps(file[k].lines) ELSE <<>>)

\* C1: once parse_functions has accepted the function file, the dispatch
\* table has one entry per declared function, in declaration order, and
\* each entry is guarded by the conjunction of all the suite-wide tags of
\* the file and the function's own tags, unguarded only when there are none.
C1_DispatchGuardedBySuiteAndFunctionTags ==
    pc = "gen_from_test_data" =>
        LET decl == SelectSeq(funcs_file, IsCase) IN
        /\ Len(dispatch_code) = Len(decl)
        /\ \A i \in 1..Len(decl) :
             LET tags == SuiteTagsIn(funcs_file, Len(funcs_file))
                         \o parse_function_deps(decl[i].dep_str)
             IN  /\ dispatch_code[i].entry.name = Renamed(decl[i].name)
                 /\ dispatch_code[i].entry.ifdef = Conjunction(tags)
                 /\ dispatch_code[i].entry.guarded = (tags # <<>>)

\* a function-case block that parse_function_code accepts where it stands
Declares(file, k) ==
    /\ file[k].kind = "case"
    /\ \A i \in 1..Len(file[k].params) : file[k].params[i] \in SupportedParams
    /\ \A t \in Range(parse_function_deps(file[k].dep_str)) : t # <<>>
    /\ \A t \in Range(SuiteTagsIn(file, k - 1)) : t # <<>>

\* the message contains the words of text, in order and adjacent
Mentions(msg, text) ==
    \E i \in 0..(Len(msg) - Len(text)) : SubSeq(msg, i + 1, i + Len(text)) = text

\* C8: when a function-case block declares a name that an earlier block of
\* the file has declared (both blocks being declarations parse_function_code
\* accepts), parse_functions stops there with a GeneratorInputError that names
\* the file and the function, and the second declaration has got neither a
\* function id nor a dispatch entry.
C8_DuplicateFunctionRejected ==
    \A k \in 1..funcs_pos :
        (/\ Declares(funcs_file, k)
         /\ \E j \in 1..(k - 1) : /\ funcs_file[j].kind = "case"
                                  /\ funcs_file[j].name = funcs_file[k].name)
        => LET nm == Renamed(funcs_file[k].name)
               earlier == {j \in 1..(k - 1) : funcs_file[j].kind = "case"}
           IN  /\ k = funcs_pos
               /\ pc = "error"
               /\ err.type = "GeneratorInputError"
               /\ Mentions(err.msg, <<FuncsFileName>>)
               /\ Mentions(err.msg, nm)
               /\ function_idx = Cardinality(earlier)
               /\ Len(dispatch_code) = Cardinality(earlier)
               /\ Cardinality({i \in 1..Len(dispatch_code) :
                                 dispatch_code[i].entry.name = nm}) = 1
               /\ Cardinality({j \in earlier : funcs_file[j].name = funcs_file[k].name}) = 1
               /\ \A i \in 1..Len(dispatch_code) :
                    dispatch_code[i].entry.name = nm
                    => func_info[nm].id = dispatch_code[i].id

C8_Witness_DuplicateSeen ==
    /\ pc = "error"
    /\ funcs_pos = 3
    /\ funcs_file[1].kind = "case"
    /\ funcs_file[2].kind = "deps"
    /\ funcs_file[3].kind = "case"
    /\ funcs_file[3].name = funcs_file[1].name
    /\ Mentions(err.msg, <<"re-declared at line">>)


(***************************************************************************)
(* Properties of the data file run (Spec).                                 *)
(***************************************************************************)
Accepting == pc \in {"gen_from_test_data", "render", "done"}
Accepted == pc \in {"render", "done"}

\* the argument lines read so far: the n-th one gave the n-th yielded tuple
ArgLinesRead == SelectSeq(data_read, LAMBDA l : l \in ArgLines)

\* a sequence without its repetitions, in order of first occurrence
RECURSIVE Distinct(_)
Distinct(s) ==
    IF s = <<>> THEN <<>>
    ELSE LET d == Distinct(SubSeq(s, 1, Len(s) - 1))
         IN  IF s[Len(s)] \in Range(d) THEN d ELSE Append(d, s[Len(s)])

\* zero-based position in a sequence without repetitions
IdOf(d, x) == (CHOOSE i \in 1..Len(d) : d[i] = x) - 1

Schema(t) == func_info[Renamed(t.function)].args

\* the dependency tags, and the non-literal tokens bound to int parameters,
\* of the tuples yielded so far, in order of occurrence
TagOccurrences == Flatten([n \in 1..Len(yielded) |-> yielded[n].deps])
IsExpression(t, i) == Schema(t)[i] = "int" /\ ~IsIntLiteral(t.args[i])
ExpressionsOf(t) ==
    Flatten([i \in 1..Len(t.args) |-> IF IsExpression(t, i) THEN <<t.args[i]>> ELSE <<>>])
ExpressionOccurrences == Flatten([n \in 1..Len(yielded) |-> ExpressionsOf(yielded[n])])

\* the records of the intermediate file: the lines up to each blank line
RECURSIVE Records(_)
Records(lines) ==
    IF \A i \in 1..Len(lines) : lines[i] # <<>>
    THEN <<>>
    ELSE LET k == CHOOSE i \in 1..Len(lines) : lines[i] = <<>> /\ \A j \in 1..(i-1) : lines[j] # <<>>
         IN  <<SubSeq(lines, 1, k - 1)>> \o Records(SubSeq(lines, k + 1, Len(lines)))

\* a record decoded: name line, optional depends_on line, function line
HasDepLine(rec) == Len(rec) >= 3 /\ rec[2][1] = "depends_on"
FuncLine(rec) == rec[Len(rec)]
Pairs(parts) == [k \in 1..((Len(parts) - 1) \div 2) |-> <<parts[2 * k], parts[2 * k + 1]>>]
Decode(rec) ==
    [name |-> rec[1],
     dep_ids |-> IF HasDepLine(rec) THEN Tail(escaped_split(rec[2], ":")) ELSE <<>>,
     func_id |-> escaped_split(FuncLine(rec), ":")[1],
     fields |-> Len(escaped_split(FuncLine(rec), ":")) - 1,
     typed_args |-> Pairs(escaped_split(FuncLine(rec), ":"))]

\* what a yielded tuple is as a test case: ids in place of texts
TypedArg(t, i) ==
    IF IsExpression(t, i)
    THEN <<<<"exp">>, str(IdOf(Distinct(ExpressionOccurrences), t.args[i]))>>
    ELSE <<<<Schema(t)[i]>>, t.args[i]>>
TestCase(t) ==
    [name |-> t.name,
     dep_ids |-> [i \in 1..Len(t.deps) |-> str(IdOf(Distinct(TagOccurrences), t.deps[i]))],
     func_id |-> str(func_info[Renamed(t.function)].id),
     fields |-> 2 * Len(t.args),
     typed_args |-> [i \in 1..Len(t.args) |-> TypedArg(t, i)]]

\* C2: for an accepted data file the intermediate file has one record per
\* parsed case and the n-th record decodes to the n-th case: same name, same
\* dependency ids, same function id, same typed arguments.
C2_RecordsDecodeToCases ==
    Accepted =>
        /\ Len(Records(out_data_f.lines)) = Len(yielded)
        /\ \A n \in 1..Len(yielded) :
             Decode(Records(out_data_f.lines)[n]) = TestCase(yielded[n])


\* the record the format prescribes for a test case
TypeTags == {<<"int">>, <<"char*">>, <<"hex">>, <<"exp">>}
DependsOnLine(c) ==
    <<"depends_on">> \o Flatten([i \in 1..Len(c.dep_ids) |-> <<":">> \o c.dep_ids[i]])
FunctionLine(c) ==
    c.func_id \o Flatten([i \in 1..Len(c.typed_args) |->
                            <<":">> \o c.typed_args[i][1] \o <<":">> \o c.typed_args[i][2]])
Record(c) ==
    <<c.name>> \o (IF Len(c.dep_ids) > 0 THEN <<DependsOnLine(c)>> ELSE <<>>)
               \o <<FunctionLine(c), <<>>>>

AddTwo == [name |-> <<"Add two">>, function |-> <<"add">>, deps |-> <<>>,
           args |-> <<<<"3">>, <<"4">>>>]
AddDeclaredFirst ==
    /\ Renamed(<<"add">>) \in DOMAIN func_info
    /\ func_info[Renamed(<<"add">>)] = [id |-> 0, args |-> <<"int", "int">>]

\* C3: while the data file is accepted, the intermediate file is, case by
\* case in encounter order, the name line, a depends_on line with one ':id'
\* per dependency exactly when the case has a dependency, the function id
\* with one ':type:value' per argument (type one of int, char*, hex, exp),
\* and a blank line; the case 'Add two' / 'add:3:4', add being declared
\* first as (int, int), gives 'Add two', '0:int:3:int:4', blank.
C3_IntermediateFileFormat ==
    Accepting =>
        /\ out_data_f.part = <<>>
        /\ out_data_f.lines = Flatten([n \in 1..Len(yielded) |-> Record(TestCase(yielded[n]))])
        /\ \A n \in 1..Len(yielded) :
             /\ \A i \in 1..Len(yielded[n].args) :
                  TestCase(yielded[n]).typed_args[i][1] \in TypeTags
             /\ (yielded[n] = AddTwo /\ AddDeclaredFirst)
                => LET before == Len(Flatten([m \in 1..(n - 1) |->
                                                Record(TestCase(yielded[m]))]))
                   IN  SubSeq(out_data_f.lines, before + 1, before + 3)
                   = << <<"Add two">>,
                        <<"0", ":", "int", ":", "3", ":", "int", ":", "4">>,
                        <<>> >>

C3_Witness_AddTwoThenDependentCase ==
    /\ Accepted
    /\ Len(yielded) = 2
    /\ yielded[1] = AddTwo
    /\ AddDeclaredFirst
    /\ Len(yielded[2].deps) = 2
    /\ Len(out_data_f.lines) = 7

\* C4: dependency tags and, in their own id space, non-literal expressions
\* each have one id; the ids are 0, 1, 2, ... in order of first occurrence
\* over the cases processed so far, and every id written to the intermediate
\* file for an earlier case is still the id of that tag or expression.
C4_InterningStable ==
    /\ \A i, j \in 1..Len(unique_deps) : unique_deps[i] = unique_deps[j] => i = j
    /\ \A i, j \in 1..Len(unique_expressions) :
         unique_expressions[i] = unique_expressions[j] => i = j
    /\ Accepting =>
         /\ unique_deps = Distinct(TagOccurrences)
         /\ unique_expressions = Distinct(ExpressionOccurrences)
         /\ \A n \in 1..Len(yielded) :
              LET rec == Decode(Records(out_data_f.lines)[n])
                  t == yielded[n]
              IN  /\ Len(rec.dep_ids) = Len(t.deps)
                  /\ \A i \in 1..Len(t.deps) :
                       rec.dep_ids[i] = str(index(unique_deps, t.deps[i]))
                  /\ \A i \in 1..Len(t.args) :
                       (IsExpression(t, i) /\ i <= Len(rec.typed_args))
                       => rec.typed_args[i][2] = str(index(unique_expressions, t.args[i]))

C4_Witness_RepeatedTagAndExpression ==
    /\ Accepting
    /\ Len(yielded) = 2
    /\ Len(unique_deps) = 2
    /\ yielded[2].deps = <<unique_deps[2], unique_deps[1]>>
    /\ yielded[1].deps = <<unique_deps[1]>>
    /\ Len(unique_expressions) = 2
    /\ yielded[2].args = <<unique_expressions[2], unique_expressions[1]>>

\* the macro a tag names, whatever its sign
Macro(tag) == TagTest(tag)[2]

\* C5 as stated: a tag and its negated form have the same id.
C5_Original_SignIgnoredInTagIdentity ==
    \A i, j \in 1..Len(unique_deps) :
        Macro(unique_deps[i]) = Macro(unique_deps[j]) => i = j

\* C5 as amended: a tag and its negated form are two interned tags with two
\* ids (the identity of a tag is its whole text, sign included), and the
\* negation is recorded in the check generated for the id, which tests the
\* macro with the sign of the tag.
C5_SignIsPartOfTagIdentity ==
    /\ Accepting =>
         /\ \A n \in 1..Len(yielded) : \A i \in 1..Len(yielded[n].deps) :
              \E k \in 1..Len(unique_deps) :
                  /\ unique_deps[k] = yielded[n].deps[i]
                  /\ Decode(Records(out_data_f.lines)[n]).dep_ids[i] = str(k - 1)
         /\ Len(dep_check_code) = Len(unique_deps)
         /\ \A i \in 1..Len(unique_deps) :
              /\ dep_check_code[i].id = i - 1
              /\ <<dep_check_code[i].noT, dep_check_code[i].macro>>
                   = TagTest(unique_deps[i])

C5_Witness_TagAndNegationInterned ==
    /\ Accepting
    /\ unique_deps = <<NotFOO, FOO>>
    /\ Len(dep_check_code) = 2


\* the line 'foo:a\:b:1'
FooLine == <<"foo", ":", "a", "\\", ":", "b", ":", "1">>

\* the places of a line where a colon follows a lone backslash
EscapedColons(line) ==
    {p \in 2..Len(line) : /\ line[p] = ":"
                          /\ line[p - 1] = "\\"
                          /\ (p = 2 \/ line[p - 2] # "\\")}

\* the places of the line where one field of parts ends and the next begins
Separators(parts) ==
    {Len(Flatten([m \in 1..k |-> parts[m]])) + k : k \in 1..(Len(parts) - 1)}

\* C7 as stated: 'foo:a\:b:1' gives function 'foo' and args ['a:b', '1'].
C7_Original_EscapedColonUnescaped ==
    \A n \in 1..Len(yielded) :
        ArgLinesRead[n] = FooLine
        => /\ yielded[n].function = <<"foo">>
           /\ yielded[n].args = << <<"a", ":", "b">>, <<"1">> >>

\* C7 as amended: an escaped colon is not a field separator and stays, with
\* its backslash, inside one field: 'foo:a\:b:1' gives function 'foo' and
\* args ['a\:b', '1'].
C7_EscapedColonKeptInField ==
    \A n \in 1..Len(yielded) :
        LET line == ArgLinesRead[n]
            parts == <<yielded[n].function>> \o yielded[n].args
        IN  /\ \A p \in EscapedColons(line) :
                 /\ p \notin Separators(parts)
                 /\ \E k \in 1..Len(parts) : \E q \in 2..Len(parts[k]) :
                      parts[k][q] = ":" /\ parts[k][q - 1] = "\\"
            /\ line = FooLine
               => /\ yielded[n].function = <<"foo">>
                  /\ yielded[n].args = << <<"a", "\\", ":", "b">>, <<"1">> >>

C7_Witness_FooLineYielded ==
    /\ Len(yielded) = 2
    /\ ArgLinesRead[2] = FooLine
    /\ Len(yielded[2].args) = 2
    /\ Len(yielded[2].args[1]) = 4

\* a yielded tuple that names no declared function, or whose number of
\* arguments is not the number of parameters of its function
UnknownFunction(t) == Renamed(t.function) \notin DOMAIN func_info
WrongArgCount(t) == ~UnknownFunction(t) /\ Len(t.args) # Len(Schema(t))

\* the intermediate file holds a finished record for each case yielded
RecordsComplete ==
    /\ out_data_f.part = <<>>
    /\ Len(Records(out_data_f.lines)) = Len(yielded)
    /\ (Len(out_data_f.lines) > 0 => out_data_f.lines[Len(out_data_f.lines)] = <<>>)

\* C9: a case that names an undeclared function, or has a number of
\* arguments other than the number of parameters of its function, ends the
\* run with a GeneratorInputError; the C file has not been opened and the
\* intermediate file has no finished record for the case.
C9_BadCaseRejectedBeforeOutput ==
    \A n \in 1..Len(yielded) :
        (UnknownFunction(yielded[n]) \/ WrongArgCount(yielded[n]))
        => /\ n = Len(yielded)
           /\ pc = "error"
           /\ err.type = "GeneratorInputError"
           /\ c_file = "unopened"
           /\ ~RecordsComplete

C9_Witness_TooFewArguments ==
    /\ Len(yielded) = 2
    /\ yielded[2].deps # <<>>
    /\ WrongArgCount(yielded[2])
    /\ Len(yielded[2].args) < Len(Schema(yielded[2]))
    /\ pc = "error"

\* C10: the error raised for an unknown function or a wrong number of
\* arguments carries the name of the data file and the line number of the
\* case.
C10_BadCaseErrorNamesFileAndLine ==
    \A n \in 1..Len(yielded) :
        (UnknownFunction(yielded[n]) \/ WrongArgCount(yielded[n]))
        => /\ Mentions(err.msg, <<DataFileName>>)
           /\ Mentions(err.msg, str(data_line_no))


(***************************************************************************)
(* write_parameters on every token (SpecParams): the function file         *)
(* declares p with one parameter, the data file has given a case name, and *)
(* the argument line binds one token to the parameter.                     *)
(***************************************************************************)
MaxTokenLen == 3    \* characters of the token

TokenAlphabet == {"0", "x", "a", "3", "M"}
Tokens == SeqsUpTo(TokenAlphabet, MaxTokenLen)
TokenArgLines ==
    {Joined("p", <<tok>>) : tok \in Tokens \ {<<>>}} \cup {<<"p", ":", ":">>}

InitParams ==
    /\ pc = "gen_from_test_data"
    /\ err = NoError
    /\ missing_paths = {}
    /\ \E param \in SupportedParams :
         /\ funcs_file = <<CaseBlock(<<>>, <<"p">>, <<param>>)>>
         /\ func_info = (Renamed(<<"p">>) :>
                           [id |-> 0, args |-> parse_function_signature(<<param>>)])
    /\ funcs_pos = 1
    /\ funcs_line_no = BlockLines(funcs_file[1])
    /\ suite_deps = <<>>
    /\ function_idx = 1
    /\ dispatch_code = <<[id |-> 0, entry |-> gen_dispatch(Renamed(<<"p">>), <<>>)]>>
    /\ suite_functions =
         <<[ifdef |-> gen_deps(<<>>),
            line |-> 2,
            code |-> function_code(<<"p">>, funcs_file[1].body),
            wrapper |-> gen_function_wrapper(Renamed(<<"p">>),
                          locals_from(funcs_file[1].params, 1),
                          args_dispatch(funcs_file[1].params))]>>
    /\ state = "READ_ARGS"
    /\ name \in NameLines
    /\ deps = <<>>
    /\ data_read = <<name>>
    /\ data_line_no = 1
    /\ yielded = <<>>
    /\ unique_deps = <<>>
    /\ unique_expressions = <<>>
    /\ dep_check_code = <<>>
    /\ expression_code = <<>>
    /\ snippets = NoSnippets
    /\ out_data_f = [ClosedOut EXCEPT !.status = "open"]
    /\ c_file = "unopened"

ReadTokenArgs == ReadArgsFrom(TokenArgLines)

NextParams ==
    \/ ReadTokenArgs
    \/ DataEOF
    \/ Render

SpecParams == InitParams /\ [][NextParams]_vars

\* the whole token is decimal digits, or an optional '0x' and hex digits
Decimal == {"0", "1", "2", "3", "4", "5", "6", "7", "8", "9"}
Hexadecimal == Decimal \cup {"a", "b", "c", "d", "e", "f", "A", "B", "C", "D", "E", "F"}
LiteralToken(tok) ==
    \/ tok # <<>> /\ \A i \in 1..Len(tok) : tok[i] \in Decimal
    \/ tok # <<>> /\ \A i \in 1..Len(tok) : tok[i] \in Hexadecimal
    \/ /\ Len(tok) >= 3
       /\ SubSeq(tok, 1, 2) = <<"0", "x">>
       /\ \A i \in 3..Len(tok) : tok[i] \in Hexadecimal

\* the function line written for the one-argument case, if it is finished
WrittenAs(typ, val) ==
    /\ Len(out_data_f.lines) >= 2
    /\ out_data_f.lines[2] = <<"0", ":", typ, ":">> \o val

\* what C6 says of the token of tuple t, bound to the parameter of p
ClassifiedAsStated(t) ==
    LET tok == t.args[1]
        typ == Schema(t)[1]
    IN  IF typ = "int"
        THEN IF LiteralToken(tok)
             THEN WrittenAs("int", tok) /\ unique_expressions = <<>>
             ELSE /\ unique_expressions = <<tok>>
                  /\ WrittenAs("exp", <<"0">>)
        ELSE WrittenAs(typ, tok) /\ unique_expressions = <<>>

\* C6 as stated: a token bound to an int parameter is written as 'int' with
\* its text exactly when it is a literal, every other one as 'exp' with its
\* expression id; char* and hex tokens keep tag and text and are not interned.
C6_Original_EveryOtherTokenWrittenAsExp ==
    \A n \in 1..Len(yielded) :
        Len(yielded[n].args) = 1 => ClassifiedAsStated(yielded[n])

\* C6 as amended: the same for every token but the empty one bound to an int
\* parameter, which is interned and then rejected with a GeneratorInputError
\* before anything is written for it.
C6_ArgumentClassification ==
    \A n \in 1..Len(yielded) :
        Len(yielded[n].args) = 1 =>
            IF Schema(yielded[n])[1] = "int" /\ yielded[n].args[1] = <<>>
            THEN /\ pc = "error"
                 /\ err.type = "GeneratorInputError"
                 /\ unique_expressions = << <<>> >>
                 /\ out_data_f.lines = <<yielded[n].name>>
                 /\ out_data_f.part = <<"0">>
            ELSE /\ err.type # "GeneratorInputError"
                 /\ ClassifiedAsStated(yielded[n])

C6_Witness_PrefixOnlyLiteralIsExpression ==
    /\ Len(yielded) = 1
    /\ yielded[1].args = << <<"0", "x", "M">> >>
    /\ Schema(yielded[1]) = <<"int">>
    /\ unique_expressions = << <<"0", "x", "M">> >>
    /\ pc = "done"


(***************************************************************************)
(* The type of the errors of parse_functions (SpecFuncs).                  *)
(***************************************************************************)
\* a function-case block with a parameter declaration of an unsupported type
UnsupportedParameter(b) ==
    /\ b.kind = "case"
    /\ \E i \in 1..Len(b.params) : b.params[i] \notin SupportedParams

\* a function-case block that declares the name of an earlier one
DuplicateName(file, k) ==
    /\ Declares(file, k)
    /\ \E j \in 1..(k - 1) : file[j].kind = "case" /\ file[j].name = file[k].name

\* C11: a function-case block with an unsupported parameter type, or one
\* that declares a function name again, ends the run with the exception type
\* GeneratorInputError, never another type, and the message carries the name
\* of the function file and the line number.
C11_MalformedInputIsGeneratorInputError ==
    \A k \in 1..funcs_pos :
        (UnsupportedParameter(funcs_file[k]) \/ DuplicateName(funcs_file, k))
        => /\ k = funcs_pos
           /\ pc = "error"
           /\ err.type = "GeneratorInputError"
           /\ Mentions(err.msg, <<FuncsFileName>>)
           /\ Mentions(err.msg, str(funcs_line_no))


(***************************************************************************)
(* The two output files at the end of a run (Spec).                        *)
(***************************************************************************)
RunEnded == pc \in {"done", "error"}

\* the with statement of the data phase was left without an exception: the
\* intermediate file is closed and holds a finished record for every case
IntermediateFileComplete ==
    /\ out_data_f.status = "closed"
    /\ RecordsComplete
    /\ pc \in {"render", "done"} \/ (pc = "error" /\ err.type = "KeyError")

\* C12: when a run has ended, normally or with an exception, the C file is
\* completely written exactly when the intermediate data file is.
C12_NoPartialSuccess ==
    RunEnded => ((c_file = "written") <=> IntermediateFileComplete)


(***************************************************************************)
(* The path check of generate_code (Spec).                                 *)
(***************************************************************************)
\* no block of the function file and no line of the data file has been read
NothingParsed ==
    /\ funcs_pos = 0
    /\ funcs_line_no = 0
    /\ suite_deps = <<>>
    /\ DOMAIN func_info = {}
    /\ data_read = <<>>
    /\ data_line_no = 0
    /\ yielded = <<>>

\* neither output file has been opened, created or truncated
NoOutputOpened == out_data_f = ClosedOut /\ c_file = "unopened"

\* C13: if one of the six required paths does not exist, the run gets no
\* further than the path check: it ends there with an IOError, which is not
\* a GeneratorInputError, naming a missing path, before any input has been
\* parsed and before any output file has been opened.
C13_MissingPathIsPlainFatalError ==
    missing_paths # {} =>
        /\ pc \in {"check_paths", "error"}
        /\ NothingParsed
        /\ NoOutputOpened
        /\ pc = "error" =>
             /\ err.type = "IOError"
             /\ err.type # "GeneratorInputError"
             /\ \E p \in missing_paths : err.msg = <<"ERROR:", p, "not found!">>

C13_Witness_TwoPathsMissing ==
    /\ missing_paths = {"Template file", "Suites dir"}
    /\ pc = "error"
    /\ err.msg = <<"ERROR:", "Template file", "not found!">>


(***************************************************************************)
(* Blank lines of the data file (Spec).                                    *)
(***************************************************************************)
\* the step reads the given line from the data file
Reads(line) == data_read' = Append(data_read, line)

\* C14: a blank line read while the arguments are expected (after the name
\* line or after a depends_on line) raises a GeneratorInputError that names
\* the data file, the line and the case, and no tuple is yielded for the
\* case; a blank line read while a name is expected is skipped and the
\* scanner still expects a name.
C14_BlankLineEndsCaseOrIsSkipped ==
    [][Reads(Blank) =>
         IF state = "READ_ARGS"
         THEN /\ pc' = "error"
              /\ err'.type = "GeneratorInputError"
              /\ Mentions(err'.msg, <<DataFileName, ":">> \o str(Len(data_read) + 1))
              /\ Mentions(err'.msg, name)
              /\ name # <<>>
              /\ yielded' = yielded
         ELSE /\ state = "READ_NAME"
              /\ state' = "READ_NAME"
              /\ pc' = "gen_from_test_data"
              /\ UNCHANGED <<err, name, deps, yielded, out_data_f>>]_vars

C14_Witness_BlankAfterDependsOn ==
    /\ pc = "error"
    /\ Len(data_read) = 3
    /\ data_read[1] \in NameLines
    /\ data_read[2] = Joined("depends_on", <<FOO>>)
    /\ data_read[3] = Blank
    /\ yielded = <<>>
    /\ Mentions(err.msg, <<"[", DataFileName, ":", "3">>)


(***************************************************************************)
(* Lines read while the arguments are expected (Spec).                     *)
(***************************************************************************)
\* the line begins with 'depends_on:'
BeginsWithDependsOn(line) ==
    Len(line) >= 2 /\ line[1] = "depends_on" /\ line[2] = ":"

\* the lines of the model that are neither blank nor comments
ContentLines == NameLines \cup DepLines \cup ArgLines

\* C15: while the arguments are expected, a line that begins with
\* 'depends_on:' records the dependencies of the case, yields nothing and
\* leaves the scanner expecting arguments; every other line that is neither
\* blank nor a comment is the argument line: its first field is the function
\* name, the other fields are the arguments, the case is yielded, and the
\* scanner expects a name again unless the case is rejected.  An argument
\* line with 'depends_on:' inside a later field is such a line.
C15_DependsOnOnlyAtLineStart ==
    [][\A line \in ContentLines :
         (state = "READ_ARGS" /\ Reads(line)) =>
             IF BeginsWithDependsOn(line)
             THEN /\ deps' = NonEmpty(split(SubSeq(line, 3, Len(line)), ":"))
                  /\ state' = "READ_ARGS"
                  /\ yielded' = yielded
             ELSE /\ Len(yielded') = Len(yielded) + 1
                  /\ LET t == yielded'[Len(yielded')] IN
                       /\ t.name = name
                       /\ t.deps = deps
                       /\ <<t.function>> \o t.args = escaped_split(line, ":")
                  /\ pc' # "error" => state' = "READ_NAME" /\ deps' = <<>>]_vars


(***************************************************************************)
(* Two calls of gen_from_test_data (SpecRuns).  The function file is       *)
(* parsed once; each call then works on its own data file object, output   *)
(* file object and local variables, so the variables of the data phase     *)
(* hold one value per call.  A step of a call is one test case of its data *)
(* file: the name line, the depends_on line if any and the argument line.  *)
(* The calls take their steps in any order, and a call that has ended can  *)
(* be made again.                                                          *)
(***************************************************************************)
Runs == {1, 2}

\* the local variable v of call r
LocalsShared(v, r) == v[1]
Locals(v, r) == v[r]

\* the test cases of the data files of the calls
RunCases ==
    { <<<<"Add two">>, Joined("add", << <<"3">>, <<"4">> >>)>>,
      <<<<"Add two">>, Joined("depends_on", <<FOO>>),
        Joined("add", << <<"3", "M">>, <<"0", "x", "a">> >>)>>,
      <<CaseName(2), Joined("depends_on", <<NotFOO, FOO>>),
        Joined("add", << <<"a", "\\", ":", "M">>, <<"3", "M">> >>)>>,
      <<CaseName(2), Joined("depends_on", <<BAR>>), Joined("f2", << <<"3">>, <<"4">> >>)>> }

InitRuns ==
    /\ pc = "parse_functions"
    /\ err = [r \in Runs |-> NoError]
    /\ missing_paths = {}
    /\ funcs_file \in SuiteFiles
    /\ funcs_pos = 0
    /\ funcs_line_no = 0
    /\ suite_deps = <<>>
    /\ func_info = << >>
    /\ function_idx = 0
    /\ dispatch_code = <<>>
    /\ suite_functions = <<>>
    /\ state = [r \in Runs |-> "not called"]
    /\ name = [r \in Runs |-> <<>>]
    /\ deps = [r \in Runs |-> <<>>]
    /\ data_read = [r \in Runs |-> <<>>]
    /\ data_line_no = [r \in Runs |-> 0]
    /\ yielded = [r \in Runs |-> <<>>]
    /\ unique_deps = [r \in Runs |-> <<>>]
    /\ unique_expressions = [r \in Runs |-> <<>>]
    /\ dep_check_code = [r \in Runs |-> <<>>]
    /\ expression_code = [r \in Runs |-> <<>>]
    /\ snippets = [r \in Runs |-> NoSnippets]
    /\ out_data_f = [r \in Runs |-> ClosedOut]
    /\ c_file = "unopened"

\* gen_from_test_data is called: its files are at their start and its
\* tables and check code are empty
EnterRun(r) ==
    /\ pc = "gen_from_test_data"
    /\ state[r] \in {"not called", "returned", "raised"}
    /\ state' = [state EXCEPT ![r] = "READ_NAME"]
    /\ err' = [err EXCEPT ![r] = NoError]
    /\ name' = [name EXCEPT ![r] = <<>>]
    /\ deps' = [deps EXCEPT ![r] = <<>>]
    /\ data_read' = [data_read EXCEPT ![r] = <<>>]
    /\ data_line_no' = [data_line_no EXCEPT ![r] = 0]
    /\ yielded' = [yielded EXCEPT ![r] = <<>>]
    /\ unique_deps' = [unique_deps EXCEPT ![r] = <<>>]
    /\ unique_expressions' = [unique_expressions EXCEPT ![r] = <<>>]
    /\ dep_check_code' = [dep_check_code EXCEPT ![r] = <<>>]
    /\ expression_code' = [expression_code EXCEPT ![r] = <<>>]
    /\ snippets' = [snippets EXCEPT ![r] = NoSnippets]
    /\ out_data_f' = [out_data_f EXCEPT ![r] = [ClosedOut EXCEPT !.status = "open"]]
    /\ UNCHANGED <<pc, missing_paths, funcs_file, funcsVars, c_file>>

\* one test case of the data file of call r goes through the loop body
RunCase(r) ==
    /\ pc = "gen_from_test_data"
    /\ state[r] = "READ_NAME"
    /\ Len(yielded[r]) < MaxCases
    /\ \E c \in RunCases :
         LET line == c[Len(c)]
             parts == escaped_split(line, ":")
             t == [name |-> c[1], function |-> parts[1],
                   deps |-> IF Len(c) = 3
                            THEN NonEmpty(split(DependsOnGroup(c[2]), ":"))
                            ELSE <<>>,
                   args |-> Tail(parts)]
             b == LoopBody(Locals(out_data_f, r), t, func_info, Locals(unique_deps, r),
                           Locals(unique_expressions, r))
         IN  /\ data_read' = [data_read EXCEPT ![r] = @ \o c]
             /\ data_line_no' = [data_line_no EXCEPT ![r] = @ + Len(c)]
             /\ name' = [name EXCEPT ![r] = c[1]]
             /\ yielded' = [yielded EXCEPT ![r] = Append(@, t)]
             /\ unique_deps' = [unique_deps EXCEPT ![r] = b.ud]
             /\ unique_expressions' = [unique_expressions EXCEPT ![r] = b.ue]
             /\ IF b.err # NoError
                THEN /\ err' = [err EXCEPT ![r] = b.err]
                     /\ state' = [state EXCEPT ![r] = "raised"]
                     /\ out_data_f' = [out_data_f EXCEPT ![r] = CloseOut(b.f)]
                     /\ UNCHANGED <<dep_check_code, expression_code>>
                ELSE /\ out_data_f' = [out_data_f EXCEPT ![r] = b.f]
                     /\ dep_check_code' =
                          [dep_check_code EXCEPT ![r] = Locals(dep_check_code, r) \o b.dcode]
                     /\ expression_code' =
                          [expression_code EXCEPT ![r] = Locals(expression_code, r) \o b.ecode]
                     /\ UNCHANGED <<err, state>>
    /\ UNCHANGED <<pc, missing_paths, funcs_file, funcsVars, deps, snippets, c_file>>

\* the data file of call r is at its end: the call returns the check code
ReturnRun(r) ==
    /\ pc = "gen_from_test_data"
    /\ state[r] = "READ_NAME"
    /\ state' = [state EXCEPT ![r] = "returned"]
    /\ snippets' = [snippets EXCEPT ![r] =
                      gen_suite_deps_checks(suite_deps, Locals(dep_check_code, r),
                                            Locals(expression_code, r))]
    /\ out_data_f' = [out_data_f EXCEPT ![r] = CloseOut(Locals(out_data_f, r))]
    /\ UNCHANGED <<pc, err, missing_paths, funcs_file, funcsVars, name, deps, data_read,
                   data_line_no, yielded, unique_deps, unique_expressions,
                   dep_check_code, expression_code, c_file>>

EnterSomeRun == \E r \in Runs : EnterRun(r)
RunSomeCase == \E r \in Runs : RunCase(r)
ReturnSomeRun == \E r \in Runs : ReturnRun(r)

NextRuns ==
    \/ ParseSuiteDeps
    \/ ParseCase
    \/ ParseFunctionsEnd
    \/ EnterSomeRun
    \/ RunSomeCase
    \/ ReturnSomeRun

SpecRuns == InitRuns /\ [][NextRuns]_vars

\* the tags, and the non-literal tokens bound to int parameters, of the cases
\* call r has processed, in order of occurrence
TagsOfRun(r) == Flatten([n \in 1..Len(yielded[r]) |-> yielded[r][n].deps])
ExpressionsOfRun(r) ==
    Flatten([n \in 1..Len(yielded[r]) |-> ExpressionsOf(yielded[r][n])])

\* what call r has produced so far
ProducedBy(r) ==
    [unique_deps |-> unique_deps[r], unique_expressions |-> unique_expressions[r],
     lines |-> out_data_f[r].lines, part |-> out_data_f[r].part,
     dep_check_code |-> dep_check_code[r], expression_code |-> expression_code[r],
     err |-> err[r]]

\* C16: every call of gen_from_test_data starts with empty id tables; the
\* ids of a call are those of the tags and expressions of its own data file,
\* in order of first occurrence; and two calls that have read the same data
\* have produced the same ids, tables and records, however their steps were
\* ordered and whatever the other call has interned.
C16_TablesBelongToOneRun ==
    /\ \A r \in Runs :
         /\ (state[r] = "READ_NAME" /\ data_read[r] = <<>>)
            => /\ unique_deps[r] = <<>>
               /\ unique_expressions[r] = <<>>
         /\ state[r] \in {"READ_NAME", "returned"}
            => /\ unique_deps[r] = Distinct(TagsOfRun(r))
               /\ unique_expressions[r] = Distinct(ExpressionsOfRun(r))
    /\ \A r1, r2 \in Runs :
         data_read[r1] = data_read[r2] => ProducedBy(r1) = ProducedBy(r2)

C16_Witness_SameDataSameIds ==
    /\ state[1] = "returned"
    /\ state[2] = "READ_NAME"
    /\ data_read[1] = data_read[2]
    /\ Len(yielded[2]) = 2
    /\ unique_deps[2] = <<NotFOO, FOO>>
    /\ Len(unique_expressions[2]) = 2


(***************************************************************************)
(* Comment lines of the data file (Spec).                                  *)
(***************************************************************************)
\* the lines of the model whose first character is '#'
HashLines == {line \in ContentLines \cup {Blank, Comment} : line # <<>> /\ line[1] = "#"}

\* C17: a line whose first character is '#' is skipped in either scanner
\* state: the state, the pending case name and the pending dependency list
\* are unchanged, no case is yielded and nothing is written.
C17_CommentLineChangesNothing ==
    [][\A line \in HashLines :
         Reads(line) =>
             /\ state \in {"READ_NAME", "READ_ARGS"}
             /\ UNCHANGED <<state, name, deps, yielded, pc, err, out_data_f,
                            unique_deps, unique_expressions>>]_vars

C17_Witness_CommentAfterDependsOn ==
    /\ pc = "gen_from_test_data"
    /\ state = "READ_ARGS"
    /\ Len(data_read) = 3
    /\ data_read[2] \in DepLines
    /\ data_read[3] = Comment
    /\ name = data_read[1]
    /\ deps = <<NotFOO, FOO>>
    /\ yielded = <<>>


(***************************************************************************)
(* The check code at the end of a successful run (Spec).                   *)
(***************************************************************************)
\* what a dependency case yields when the macro of its test is defined and
\* when it is not: '#if [!]defined(macro)' selects DEPENDENCY_SUPPORTED
Verdict(case, defined) ==
    IF (case.noT = "!") # defined THEN "DEPENDENCY_SUPPORTED"
    ELSE "DEPENDENCY_NOT_SUPPORTED"

\* the tag begins with '!'
Negated(tag) == tag # <<>> /\ tag[1] = "!"

\* the number of the case at which a tag, or an expression, first occurs
FirstCaseWithTag(tag) ==
    CHOOSE n \in 1..Len(yielded) :
        /\ tag \in Range(yielded[n].deps)
        /\ \A m \in 1..(n - 1) : tag \notin Range(yielded[m].deps)
FirstCaseWithExpression(e) ==
    CHOOSE n \in 1..Len(yielded) :
        /\ e \in Range(ExpressionsOf(yielded[n]))
        /\ \A m \in 1..(n - 1) : e \notin Range(ExpressionsOf(yielded[m]))

\* C18: at the end of a successful run the dependency-check code has exactly
\* one case per interned tag and the expression-check code exactly one case
\* per interned expression, each keyed by the id of the tag or expression
\* and in the order of first occurrences; a dependency case yields
\* 'supported' when the macro of the tag is defined (when it is not defined,
\* for a tag written with a leading '!') and 'not supported' otherwise; an
\* expression case evaluates the text of the expression.
C18_OneCheckCasePerInternedId ==
    pc = "done" =>
        /\ snippets.dep_check_code.code = dep_check_code
        /\ snippets.expression_code.code = expression_code
        /\ Len(dep_check_code) = Len(unique_deps)
        /\ Len(expression_code) = Len(unique_expressions)
        /\ \A i \in 1..Len(unique_deps) :
             LET tag == unique_deps[i]
                 case == dep_check_code[i]
             IN  /\ case.id = i - 1
                 /\ case.macro = (IF Negated(tag) THEN Tail(tag) ELSE tag)
                 /\ Verdict(case, ~Negated(tag)) = "DEPENDENCY_SUPPORTED"
                 /\ Verdict(case, Negated(tag)) = "DEPENDENCY_NOT_SUPPORTED"
                 /\ \A j \in 1..(i - 1) :
                      FirstCaseWithTag(unique_deps[j]) <= FirstCaseWithTag(tag)
        /\ \A i \in 1..Len(unique_expressions) :
             /\ expression_code[i].exp_id = i - 1
             /\ expression_code[i].expression = unique_expressions[i]
             /\ \A j \in 1..(i - 1) :
                  FirstCaseWithExpression(unique_expressions[j])
                    <= FirstCaseWithExpression(unique_expressions[i])

C18_Witness_TwoCasesOfEachKind ==
    /\ pc = "done"
    /\ Len(yielded) = 2
    /\ unique_deps = <<FOO, NotFOO>>
    /\ dep_check_code[2].noT = "!"
    /\ Len(expression_code) = 2
    /\ yielded[2].args = yielded[1].args


(***************************************************************************)
(* The check blocks under the suite dependencies (SpecChecks): function    *)
(* files with no, one and two suite-wide tags, and data files of cases     *)
(* with and without tags and expressions.                                  *)
(***************************************************************************)
CheckFiles ==
    { <<AddBlock>>,
      <<DepsBlock(<<Joined("depends_on", <<S1>>)>>), AddBlock>>,
      <<DepsBlock(<<Joined("depends_on", <<NotS2>>), Joined("depends_on", <<S1>>)>>),
        AddBlock>>,
      <<AddBlock, DepsBlock(<<Joined("depends_on", <<NotS2, S1>>)>>)>> }

CheckArgLines ==
    { Joined("add", << <<"3">>, <<"4">> >>),
      Joined("add", << <<"3", "M">>, <<"0", "x", "a">> >>) }

InitChecks == InitRun(CheckFiles, "parse_functions")

ReadCheckArgs == ReadArgsFrom(CheckArgLines)

NextChecks ==
    \/ ParseSuiteDeps
    \/ ParseCase
    \/ ParseFunctionsEnd
    \/ ReadName
    \/ ReadDeps
    \/ ReadCheckArgs
    \/ DataEOF
    \/ Render

SpecChecks == InitChecks /\ [][NextChecks]_vars

\* C19: if the suite declares a suite-wide tag, the dependency-check block
\* and the expression-check block are each wrapped in one conditional, the
\* conjunction of all the suite-wide tags of the function file (a tag with a
\* leading '!' tested as not defined), whether the block holds a case or
\* not; if the suite declares none, both blocks are emitted unwrapped.
C19_CheckBlocksUnderSuiteTags ==
    pc \in {"render", "done"} =>
        LET tags == SuiteTagsIn(funcs_file, Len(funcs_file))
            blocks == <<snippets.dep_check_code, snippets.expression_code>>
        IN  /\ blocks[1].code = dep_check_code
            /\ blocks[2].code = expression_code
            /\ \A k \in 1..2 :
                 IF tags # <<>>
                 THEN /\ blocks[k].wrapped
                      /\ blocks[k].ifdef = Conjunction(tags)
                 ELSE /\ ~blocks[k].wrapped
                      /\ blocks[k].ifdef = <<>>

C19_Witness_EmptyBlockWrapped ==
    /\ pc = "done"
    /\ suite_deps = <<NotS2, S1>>
    /\ Len(yielded) = 2
    /\ dep_check_code # <<>>
    /\ expression_code = <<>>
    /\ snippets.expression_code.wrapped
    /\ snippets.expression_code.ifdef = << <<"!", <<"S2">> >>, <<"", <<"S1">> >> >>


(***************************************************************************)
(* The wrapper of a function (SpecSig): parse_functions on a function file *)
(* of one function, for every signature of at most MaxParams parameter     *)
(* declarations.                                                           *)
(***************************************************************************)
ParamDecls == SupportedParams \cup {"float"}

SigFiles == { <<CaseBlock(<<>>, <<"p">>, ps)>> : ps \in SeqsUpTo(ParamDecls, MaxParams) }

InitSig == InitRun(SigFiles, "parse_functions")

NextSig ==
    \/ ParseCase
    \/ ParseFunctionsEnd

SpecSig == InitSig /\ [][NextSig]_vars

\* an integer or string parameter, and a byte-buffer parameter
Simple(decl) == decl \in {"int", "char*"}
ByteBuffer(decl) == decl = "data_t*"

\* the slot at which the claim has parameter k start
SlotOf(params, k) ==
    Cardinality({j \in 1..(k - 1) : Simple(params[j])})
    + 2 * Cardinality({j \in 1..(k - 1) : ByteBuffer(params[j])})

\* the slots of params[] the wrapper w reads for its k-th argument: the slot
\* of the cast, or the two slots of the local the argument points to
SlotsRead(w, k) ==
    IF w.args[k].expr = "&data<n>"
    THEN UNION {{l.pointer_initializer, l.len_initializer} :
                  l \in {w.locals[i] : i \in {i \in 1..Len(w.locals) :
                                                 w.locals[i].data = w.args[k].n}}}
    ELSE {w.args[k].n}

\* C20: the wrapper of an accepted function reads parameter k from the slot
\* whose index is the number of int and char* parameters before k plus twice
\* the number of data_t parameters before k; an int or char* parameter reads
\* that one slot, a data_t parameter that slot as pointer and the next as
\* length; no slot is read for two parameters; and the schema recorded in
\* func_info has exactly one entry per declared parameter.
C20_WrapperSlots ==
    \A f \in 1..Len(suite_functions) :
        LET params == funcs_file[f].params
            w == suite_functions[f].wrapper
            schema == func_info[w.name].args
        IN  /\ Len(w.args) = Len(params)
            /\ Len(schema) = Len(params)
            /\ \A k \in 1..Len(params) :
                 /\ Simple(params[k]) => SlotsRead(w, k) = {SlotOf(params, k)}
                 /\ ByteBuffer(params[k]) =>
                      /\ SlotsRead(w, k) = {SlotOf(params, k), SlotOf(params, k) + 1}
                      /\ \E i \in 1..Len(w.locals) :
                           /\ w.locals[i].data = w.args[k].n
                           /\ w.locals[i].pointer_initializer = SlotOf(params, k)
                           /\ w.locals[i].len_initializer = SlotOf(params, k) + 1
                 /\ schema[k] = (IF ByteBuffer(params[k]) THEN "hex" ELSE params[k])
            /\ \A k1, k2 \in 1..Len(params) :
                 k1 # k2 => SlotsRead(w, k1) \cap SlotsRead(w, k2) = {}

C20_Witness_ParameterAfterTwoBuffers ==
    /\ pc = "gen_from_test_data"
    /\ funcs_file[1].params = <<"data_t*", "int", "data_t*", "char*">>
    /\ Len(suite_functions) = 1
    /\ suite_functions[1].wrapper.args[4].n = 5
    /\ Len(suite_functions[1].wrapper.locals) = 2

(***************************************************************************)
(* C21: function numbering.                                                *)
(***************************************************************************)
\* the function-case blocks among the first n blocks of the function file,
\* in the order in which parse_functions meets them
RECURSIVE CaseBlocksUpTo(_)
CaseBlocksUpTo(n) ==
    IF n = 0 THEN <<>>
    ELSE CaseBlocksUpTo(n - 1) \o (IF funcs_file[n].kind = "case"
                                    THEN <<funcs_file[n]>> ELSE <<>>)

\* C21: after any prefix of the function file the accepted functions are
\* numbered 0, 1, 2, ... in the order met, without gap or reuse: the k-th
\* dispatch entry carries id k - 1, the symbol table gives its function the
\* same id, the two tables have the same number of entries, the next id is
\* that number, and while no block has been rejected the k-th entry belongs
\* to the k-th function-case block read
C21_FunctionsNumberedInOrder ==
    /\ Cardinality(DOMAIN func_info) = Len(dispatch_code)
    /\ function_idx = Len(dispatch_code)
    /\ \A k \in 1..Len(dispatch_code) :
          /\ dispatch_code[k].id = k - 1
          /\ dispatch_code[k].entry.name \in DOMAIN func_info
          /\ func_info[dispatch_code[k].entry.name].id = k - 1
    /\ pc # "error" =>
          /\ Len(dispatch_code) = Len(CaseBlocksUpTo(funcs_pos))
          /\ \A k \in 1..Len(dispatch_code) :
                dispatch_code[k].entry.name = Renamed(CaseBlocksUpTo(funcs_pos)[k].name)

\* two functions with a suite-dependencies block between them, numbered 0, 1
C21_Witness_TwoFunctionsNumbered ==
    /\ pc = "gen_from_test_data"
    /\ Len(funcs_file) = 3
    /\ funcs_file[2].kind = "deps"
    /\ Len(dispatch_code) = 2
    /\ dispatch_code[2].id = 1

(***************************************************************************)
(* parse_function_code on every shape of function-case block (SpecCode):   *)
(* a function file of one block, after an optional suite-dependencies      *)
(* block, with up to MaxBefore lines between BEGIN_CASE and the signature  *)
(* and up to MaxBody lines between the braces of the body.                 *)
(***************************************************************************)
MaxBefore == 2      \* lines between BEGIN_CASE and the signature line
MaxBody == 2        \* lines between the braces of a function body

\* a blank line, and a line such as 'static int calls;'
BeforeLines == {"blank", "text"}
\* a statement, the exit label, and a comment that quotes the label
BodyLines == {"goto exit;", "exit:", "/* exit: */"}
Bodies == {<<"{">> \o m \o <<"}">> : m \in SeqsUpTo(BodyLines, MaxBody)}

CodeFiles ==
    { pre \o <<CaseBlockOf(<<>>, before, ret, <<"add">>, <<"int", "int">>, body)>> :
        pre \in {<<>>, <<DepsBlock(<<Joined("depends_on", <<S1>>)>>)>>},
        before \in SeqsUpTo(BeforeLines, MaxBefore),
        ret \in {"void", "int"},
        body \in Bodies }

InitCode == InitRun(CodeFiles, "parse_functions")

NextCode ==
    \/ ParseSuiteDeps
    \/ ParseCase
    \/ ParseFunctionsEnd

SpecCode == InitCode /\ [][NextCode]_vars

\* the lines of the function file before block n
RECURSIVE LinesBefore(_)
LinesBefore(n) ==
    IF n = 1 THEN 0 ELSE LinesBefore(n - 1) + BlockLines(funcs_file[n - 1])

\* the place in the function file of the f-th function-case block
CaseIndex(f) ==
    CHOOSE i \in 1..Len(funcs_file) :
        funcs_file[i].kind = "case" /\ Len(CaseBlocksUpTo(i)) = f

\* the line of the function file on which the signature of block n sits:
\* after the earlier blocks, the BEGIN_CASE line and the lines before it
SignatureLine(n) == LinesBefore(n) + 1 + Len(funcs_file[n].before) + 1

\* C22: the line counter of the function file is the number of lines read,
\* and the '#line' directive at the head of every emitted function names the
\* line of the function file on which the first emitted line of the block,
\* the signature, sits, whatever lies between BEGIN_CASE and the signature
C22_LineDirectiveNamesFirstEmittedLine ==
    /\ pc # "error" => funcs_line_no = LinesBefore(funcs_pos + 1)
    /\ \A f \in 1..Len(suite_functions) :
          suite_functions[f].line = SignatureLine(CaseIndex(f))

\* the first line after BEGIN_CASE that is not blank is 'void NAME(...)'
FirstLineIsVoidSignature(b) ==
    /\ \A i \in 1..Len(b.before) : b.before[i] = "blank"
    /\ b.ret = "void"

\* C23: a function-case block whose first non-blank line after BEGIN_CASE
\* is not a signature 'void NAME(parameter-list)' makes parsing fail
C23_FirstLineMustBeSignature ==
    \A n \in 1..funcs_pos :
        (funcs_file[n].kind = "case" /\ ~FirstLineIsVoidSignature(funcs_file[n]))
            => pc = "error"

\* the body of the f-th emitted function as the function file has it
SourceBody(f) == funcs_file[CaseIndex(f)].body

HasExitLabel(body) == \E i \in 1..Len(body) : body[i] = "exit:"

\* body with the label and its empty statement put right before line k
WithLabelBefore(body, k) ==
    SubSeq(body, 1, k - 1) \o <<"exit:", ";;">> \o SubSeq(body, k, Len(body))

\* C24: every emitted function has an exit label; a body without one is
\* emitted with the label right before its final closing brace and is
\* otherwise unchanged, a body with one is emitted as it is
C24_EveryFunctionHasExitLabel ==
    \A f \in 1..Len(suite_functions) :
        LET out == suite_functions[f].code.body IN
        /\ HasExitLabel(out)
        /\ IF HasExitLabel(SourceBody(f))
           THEN out = SourceBody(f)
           ELSE out = WithLabelBefore(SourceBody(f), Len(SourceBody(f)))

(***************************************************************************)
(* Test cases with several depends_on lines (SpecCases): a function file   *)
(* whose suite-dependencies block has two depends_on lines, and data files *)
(* whose cases have up to MaxDepLines + 1 depends_on lines each.           *)
(***************************************************************************)
CaseFiles ==
    { <<DepsBlock(<<Joined("depends_on", <<NotS2>>), Joined("depends_on", <<S1>>)>>),
        AddBlock,
        CaseBlock(Joined("depends_on", <<F1>>), <<"f2">>, <<"char*">>)>> }

CaseDepLines ==
    { Joined("depends_on", <<FOO>>),
      Joined("depends_on", <<BAR, <<>>, FOO>>),
      Joined("depends_on", <<<<>>, <<>>>>) }

CaseArgLines ==
    { Joined("add", << <<"3">>, <<"4">> >>),
      Joined("add", << <<"3">> >>),
      Joined("foo", << <<"a", "\\", ":", "b">>, <<"1">> >>) }

InitCases == InitRun(CaseFiles, "parse_functions")

ReadCaseDeps == ReadDepsFrom(CaseDepLines, MaxDepLines + 1)
ReadCaseArgs == ReadArgsFrom(CaseArgLines)

NextCases ==
    \/ ParseSuiteDeps
    \/ ParseCase
    \/ ParseFunctionsEnd
    \/ ReadName
    \/ ReadCaseDeps
    \/ ReadCaseArgs
    \/ DataEOF

SpecCases == InitCases /\ [][NextCases]_vars

\* the places in the data file of the name line and of the argument line of
\* the n-th yielded case
NameAt(n) == CHOOSE i \in 1..Len(data_read) : data_read[i] = CaseName(n)
IsDependsOnLine(line) == ~IsComment(line) /\ DependsOnAt(line) # {}
IsArgumentLine(line) == Len(line) > 0 /\ ~IsComment(line) /\ DependsOnAt(line) = {}
ArgsAt(n) ==
    CHOOSE i \in (NameAt(n) + 1)..Len(data_read) :
        /\ IsArgumentLine(data_read[i])
        /\ \A j \in (NameAt(n) + 1)..(i - 1) : ~IsArgumentLine(data_read[j])

\* the depends_on lines between the two, in order, and the tags of one line
OwnDepLines(n) ==
    SelectSeq(SubSeq(data_read, NameAt(n) + 1, ArgsAt(n) - 1), IsDependsOnLine)
TagsOfLine(line) ==
    LET fields == split(DependsOnGroup(line), ":")
    IN  SelectSeq(fields, LAMBDA x : x # <<>>)

\* C25: the dependency list yielded with a case holds only tags given
\* between the name line and the argument line of that case, none when the
\* case has no depends_on line, and the pending list is empty again whenever
\* the next name is awaited
C25_DepsBelongToOwnCase ==
    /\ \A n \in 1..Len(yielded) :
          /\ \A i \in 1..Len(yielded[n].deps) :
                \E k \in 1..Len(OwnDepLines(n)) :
                    yielded[n].deps[i] \in Range(TagsOfLine(OwnDepLines(n)[k]))
          /\ OwnDepLines(n) = <<>> => yielded[n].deps = <<>>
    /\ state = "READ_NAME" => deps = <<>>

\* a case with tags is followed by a case without depends_on line
C25_Witness_NoTagsAfterTaggedCase ==
    /\ pc = "gen_from_test_data"
    /\ Len(yielded) = 2
    /\ yielded[1].deps = <<BAR, FOO>>
    /\ OwnDepLines(2) = <<>>
    /\ yielded[2].deps = <<>>
    /\ state = "READ_NAME"

\* the lines of the suite-dependencies blocks among the first k blocks
RECURSIVE SuiteLinesIn(_)
SuiteLinesIn(k) ==
    IF k = 0 THEN <<>>
    ELSE SuiteLinesIn(k - 1)
         \o (IF funcs_file[k].kind = "deps" THEN funcs_file[k].lines ELSE <<>>)

\* C26: of several depends_on lines of one case only the last counts, the
\* yielded list being the tags of that line, while the depends_on lines of
\* the suite-dependencies blocks add up, in order
C26_CaseLinesReplaceSuiteLinesAccumulate ==
    /\ \A n \in 1..Len(yielded) :
          OwnDepLines(n) # <<>>
          => yielded[n].deps = TagsOfLine(OwnDepLines(n)[Len(OwnDepLines(n))])
    /\ LET lines == SelectSeq(SuiteLinesIn(funcs_pos), IsDependsOnLine)
       IN  suite_deps = Flatten([i \in 1..Len(lines) |->
                                   split(DependsOnGroup(lines[i]), ":")])

\* a case with two depends_on lines of different tags, after a suite block
\* of two depends_on lines
C26_Witness_TwoLinesEach ==
    /\ suite_deps = <<NotS2, S1>>
    /\ Len(yielded) >= 1
    /\ Len(OwnDepLines(1)) = 2
    /\ TagsOfLine(OwnDepLines(1)[1]) = <<BAR, FOO>>
    /\ yielded[1].deps = <<FOO>>

(***************************************************************************)
(* escaped_split on every string (SpecSplit): name holds the argument str, *)
(* a string of up to MaxSplitLen characters, and yielded the list the call *)
(* returns.                                                                *)
(***************************************************************************)
MaxSplitLen == 5    \* characters of the string given to escaped_split

SplitAlphabet == {":", "\\", "a"}
SplitStrings == SeqsUpTo(SplitAlphabet, MaxSplitLen)

InitSplit ==
    /\ pc = "escaped_split"
    /\ err = NoError
    /\ missing_paths = {}
    /\ funcs_file \in SuiteFiles
    /\ funcs_pos = 0
    /\ funcs_line_no = 0
    /\ suite_deps = <<>>
    /\ func_info = << >>
    /\ function_idx = 0
    /\ dispatch_code = <<>>
    /\ suite_functions = <<>>
    /\ state = "READ_ARGS"
    /\ name \in SplitStrings
    /\ deps = <<>>
    /\ data_read = <<>>
    /\ data_line_no = 0
    /\ yielded = <<>>
    /\ unique_deps = <<>>
    /\ unique_expressions = <<>>
    /\ dep_check_code = <<>>
    /\ expression_code = <<>>
    /\ snippets = NoSnippets
    /\ out_data_f = ClosedOut
    /\ c_file = "unopened"

\* the call escaped_split(str, ':') returns
EscapedSplit ==
    /\ pc = "escaped_split"
    /\ yielded' = escaped_split(name, ":")
    /\ pc' = "returned"
    /\ UNCHANGED <<err, missing_paths, funcs_file, funcsVars, state, name, deps, data_read,
                   data_line_no, unique_deps, unique_expressions, dep_check_code,
                   expression_code, snippets, out_data_f, c_file>>

NextSplit == EscapedSplit

SpecSplit == InitSplit /\ [][NextSplit]_vars

\* the backslashes that stand in a row right before place p of s
BackslashesBefore(s, p) ==
    LET runs == {k \in 0..(p - 1) : \A j \in (p - k)..(p - 1) : s[j] = "\\"}
    IN  CHOOSE k \in runs : \A m \in runs : m <= k

\* the colons that separate: those after an even number of backslashes
SeparatorsOf(s) ==
    {p \in 1..Len(s) : s[p] = ":" /\ BackslashesBefore(s, p) % 2 = 0}

\* the reference splitter: the text between one separator (or the start) and
\* the next (or the end), backslashes kept, an empty last field dropped
ReferenceSplit(s) ==
    LET seps == SeparatorsOf(s)
        cuts == {0} \cup seps
        start(k) == CHOOSE p \in cuts : Cardinality({q \in cuts : q < p}) = k - 1
        stop(k) == IF k = Cardinality(cuts) THEN Len(s) + 1 ELSE start(k + 1)
        fields == [k \in 1..Cardinality(cuts) |-> SubSeq(s, start(k) + 1, stop(k) - 1)]
    IN  IF fields[Len(fields)] = <<>>
        THEN SubSeq(fields, 1, Len(fields) - 1)
        ELSE fields

\* C27: for every string over ':', '\' and a letter, escaped_split(s, ':')
\* is what the reference splitter gives: a colon separates exactly when an
\* even number of backslashes stands right before it, all backslashes stay,
\* empty first and inner fields are kept and an empty last field is dropped
C27_EscapedSplitIsReferenceSplit ==
    pc = "returned" => yielded = ReferenceSplit(name)

\* two backslashes and then ':a:': split after the backslashes, empty end dropped
C27_Witness_EvenBackslashesAndEmptyEnd ==
    /\ pc = "returned"
    /\ name = <<"\\", "\\", ":", "a", ":">>
    /\ yielded = <<<<"\\", "\\">>, <<"a">>>>

(***************************************************************************)
(* C28, C29: what a run has written and interned (SpecCases).              *)
(***************************************************************************)
\* the depends_on line of a yielded tuple, ids in place of tags
DepIdsLine(t) ==
    <<"depends_on">> \o Flatten([i \in 1..Len(t.deps) |->
                                   <<":">> \o str(IdOf(Distinct(TagOccurrences), t.deps[i]))])

\* the finished records of the cases before the n-th
RecordsBefore(n) == Flatten([m \in 1..(n - 1) |-> Record(TestCase(yielded[m]))])

\* C28: the name line and the depends_on line of a case are written before
\* its function is looked up, and the function id before its arguments are
\* counted: when a case whose tags were all accepted is rejected for an
\* unknown function or a wrong number of arguments, the intermediate file holds the finished records of
\* the earlier cases, then the name line and the depends_on line of the
\* rejected case and, for a wrong number of arguments, its function id as an
\* unfinished line; the C file has not been opened
C28_RejectedCaseLeavesPartialRecord ==
    \A n \in 1..Len(yielded) :
        LET t == yielded[n] IN
        ((UnknownFunction(t) \/ WrongArgCount(t))
           /\ \A i \in 1..Len(t.deps) : ~DepCheckRejected(t.deps[i]))
        => /\ n = Len(yielded)
           /\ pc = "error"
           /\ out_data_f.lines =
                RecordsBefore(n) \o <<t.name>>
                  \o (IF Len(t.deps) > 0 THEN <<DepIdsLine(t)>> ELSE <<>>)
           /\ out_data_f.part =
                (IF UnknownFunction(t) THEN <<>> ELSE str(func_info[Renamed(t.function)].id))
           /\ c_file = "unopened"

\* the second case has tags and one argument too few: after the record of
\* the first, its name, its depends_on line and the function id are there
C28_Witness_SecondCaseHalfWritten ==
    /\ pc = "error"
    /\ Len(yielded) = 2
    /\ WrongArgCount(yielded[2])
    /\ yielded[2].deps = <<BAR, FOO>>
    /\ Len(out_data_f.lines) = 5
    /\ out_data_f.lines[5] = <<"depends_on", ":", "0", ":", "1">>
    /\ out_data_f.part = <<"0">>

\* the tags given at suite level and at function level in the blocks read
FunctionLevelTags ==
    Range(suite_deps)
    \cup UNION {Range(parse_function_deps(funcs_file[k].dep_str)) :
                  k \in {i \in 1..funcs_pos : funcs_file[i].kind = "case"}}

\* the tags that count for the n-th yielded case: the non-empty tokens of
\* its last depends_on line
CaseLevelTags(n) ==
    IF OwnDepLines(n) = <<>> THEN {}
    ELSE Range(TagsOfLine(OwnDepLines(n)[Len(OwnDepLines(n))]))

====
